---------------------------- MODULE Spec2Model ----------------------------
(***************************************************************************)
(* Model of the TML site generator: the template engine                    *)
(* (src/template_engine.py) and the site renderer (src/tml_to_site.py).    *)
(*                                                                         *)
(* Strings are sequences of chunks (<<"partials/", "header", ".html">> is  *)
(* 'partials/header.html'); concatenation is \o and the empty string is    *)
(* <<>>.  Template text is a sequence of tokens: literal text, a partial   *)
(* reference {{> name }}, a variable reference {{ name }} with the         *)
(* whitespace written on each side of the name, and the two 'not found'    *)
(* comments the engine emits.                                              *)
(***************************************************************************)
EXTENDS Integers, Sequences, FiniteSets, TLC

VARIABLES
    template_dir,    \* TemplateEngine.template_dir: "" (None) or "tpl"
    dirExists,       \* os.path.exists(template_dir)
    files,           \* files under template_dir: path -> text
    cache,           \* TemplateEngine._cache
    partial_cache,   \* TemplateEngine._partial_cache
    last,            \* the last call of a render entry point and what it observed
    firstLoad,       \* history: the text of the first successful load of each name
    calls,           \* number of render calls made
    fsOps,           \* number of changes made to the template directory
    course,          \* the TCourse handed to render_course
    outdir,          \* files of the output directory: file name -> what wrote it
    pc,              \* position of build / render_course / safe_markdown
    li,              \* index of the next lesson page to write
    made,            \* os.makedirs(outdir) has been called
    index_html,      \* the text written to index.html
    tml,             \* build's arguments: the document, validate, the validator
    err,             \* the exception that left parse_tml or render_course
    exit_code,       \* the status of sys.exit (-1: not called)
    slides,          \* render_course's slides of the lesson at hand
    slide_num,       \* render_course's slide_num
    md,              \* the argument of safe_markdown / safe_filename
    md_html          \* the value it returned

engineVars == <<template_dir, dirExists, files, cache, partial_cache, last,
                firstLoad, calls, fsOps>>
siteVars == <<course, outdir, pc, li, made, index_html>>
buildVars == <<tml, err, exit_code>>
lessonVars == <<slides, slide_num>>
textVars == <<md, md_html>>
vars == <<template_dir, dirExists, files, cache, partial_cache, last,
          firstLoad, calls, fsOps, course, outdir, pc, li, made, index_html,
          tml, err, exit_code, slides, slide_num, md, md_html>>

----------------------------------------------------------------------------
(* Bounds *)

\* Nesting depth of _render_partials at which the interpreter raises
\* RecursionError (CPython's recursion limit, scaled down; it exceeds the
\* longest acyclic chain over the partial names of the model).
RecursionLimit == 5
\* Render calls and changes to the template directory per behaviour.
MaxSteps == 3
\* Lessons of a course, over all its modules.
MaxLessons == 3
\* Modules of a course.
MaxModules == 2
\* Module elements of a document whose modules carry an order.
MaxDocModules == 3

----------------------------------------------------------------------------
(* Tokens *)

Txt(s) == [k |-> "text", name |-> <<s>>, pre |-> 0, post |-> 0]
PRef(n) == [k |-> "partial", name |-> n, pre |-> 1, post |-> 1]
Var(v, a, b) == [k |-> "var", name |-> <<v>>, pre |-> a, post |-> b]

\* f"<!-- Template '{template_name}' not found -->"
TemplateNotFound(n) == [k |-> "template_not_found", name |-> n, pre |-> 0, post |-> 0]

\* f"<!-- Partial '{partial_name}' not found -->"
PartialNotFound(n) == [k |-> "partial_not_found", name |-> n, pre |-> 0, post |-> 0]

\* name.endswith('.html')
EndsWithHtml(n) == Len(n) > 0 /\ n[Len(n)] = ".html"

Put(f, key, v) == [x \in DOMAIN f \cup {key} |-> IF x = key THEN v ELSE f[x]]

----------------------------------------------------------------------------
(* The course model *)

\* class TLesson, class TModule, class TCourse: the course model
TLesson(lid, title, duration, content, activities, assessments, module_title) ==
    [id |-> lid, title |-> title, duration |-> duration, content |-> content,
     activities |-> activities, assessments |-> assessments,
     module_title |-> module_title]

TModule(mid, title, order, lessons) ==
    [id |-> mid, title |-> title, order |-> order, lessons |-> lessons]

\* class TQuestion, class TAssessment
TQuestion(qtype, points, data) == [type |-> qtype, points |-> points, data |-> data]

TAssessment(aid, atype, passScore, questions) ==
    [id |-> aid, type |-> atype, passScore |-> passScore, questions |-> questions]

\* level or "", duration or "": an absent level or duration is the empty string
TCourse(cid, title, level, duration, objectives, modules) ==
    [id |-> cid, title |-> title, level |-> level, duration |-> duration,
     objectives |-> objectives, modules |-> modules]

\* no exception raised
NoError == [exc |-> "none", msg |-> <<>>]

\* None, the value of an absent attribute read with attrib.get(name)
PyNone == << "None" >>

\* a value inside an f-string
FStr(x) == IF x = PyNone THEN <<"N", "o", "n", "e">> ELSE x

----------------------------------------------------------------------------
(* Built-in defaults *)

BaseHtml == <<"base", ".html">>
IndexHtml == <<"index", ".html">>
LessonHtml == <<"lesson", ".html">>
HeaderKey == <<"partials/", "header", ".html">>
FooterKey == <<"partials/", "footer", ".html">>
StylesKey == <<"partials/", "styles", ".html">>
ScriptsKey == <<"partials/", "scripts", ".html">>

DefaultBase ==
    << Txt("<!doctype html>..<title>"), Var("title", 1, 1), Txt("</title>"),
       PRef(<<"styles">>), Txt("</head><body data-course-id="),
       Var("course_id", 1, 1), Txt(" data-total-lessons="),
       Var("total_lessons", 1, 1), Txt(">"), PRef(<<"header">>),
       Txt("<main><div class=container>"), Var("content", 1, 1),
       Txt("</div></main>"), PRef(<<"footer">>), PRef(<<"scripts">>),
       Txt("</body></html>") >>

get_default_template(name) ==
    CASE name = BaseHtml -> DefaultBase
      [] name = IndexHtml -> << PRef(<<"base">>), Txt("\n") >>
      [] name = LessonHtml -> << PRef(<<"base">>), Txt("\n") >>
      [] name = HeaderKey ->
            << Txt("<header><div class=container>"), Var("header_content", 1, 1),
               Txt("</div></header>") >>
      [] name = FooterKey -> << Txt("<footer>..</footer>") >>
      [] name = StylesKey -> << Txt("<style>..</style>") >>
      [] name = ScriptsKey -> << Txt("<script>..</script>") >>
      [] OTHER -> <<>>

DefaultNames ==
    {BaseHtml, IndexHtml, LessonHtml, HeaderKey, FooterKey, StylesKey, ScriptsKey}

----------------------------------------------------------------------------
(* Loading *)

\* self.template_dir and os.path.exists(self.template_dir)
DirUsable(dir, ex) == dir # "" /\ ex

\* os.path.join(self.template_dir, name), relative to template_dir
TemplatePath(name) == name

\* PartialPath with the suffix test dropped: '.html' is appended to every name.
PartialPathAppendAlways(name) == <<"partials/">> \o name \o <<".html">>

\* os.path.join(self.template_dir, 'partials', ...), relative to template_dir
PartialPath(name) ==
    IF ~EndsWithHtml(name) THEN <<"partials/">> \o name \o <<".html">>
    ELSE <<"partials/">> \o name

\* Default keys always have .html extension
PartialDefaultKey(name) ==
    IF EndsWithHtml(name) THEN <<"partials/">> \o name
    ELSE <<"partials/">> \o name \o <<".html">>

\* LoadTemplate without memoization: every call looks the name up again.
LoadTemplateUncached(name, ud, dir, ex, fs, c) ==
    IF DirUsable(dir, ex) /\ TemplatePath(name) \in DOMAIN fs
    THEN [text |-> fs[TemplatePath(name)],
          cache |-> Put(c, name, fs[TemplatePath(name)]),
          hit |-> FALSE, stored |-> TRUE]
    ELSE IF ud /\ get_default_template(name) # <<>>
    THEN [text |-> get_default_template(name),
          cache |-> Put(c, name, get_default_template(name)),
          hit |-> FALSE, stored |-> TRUE]
    ELSE [text |-> <<>>, cache |-> c, hit |-> FALSE, stored |-> FALSE]

\* _load_template: [text, cache, hit, stored]
LoadTemplate(name, ud, dir, ex, fs, c) ==
    IF name \in DOMAIN c
    THEN [text |-> c[name], cache |-> c, hit |-> TRUE, stored |-> FALSE]
    ELSE IF DirUsable(dir, ex) /\ TemplatePath(name) \in DOMAIN fs
    THEN [text |-> fs[TemplatePath(name)],
          cache |-> Put(c, name, fs[TemplatePath(name)]),
          hit |-> FALSE, stored |-> TRUE]
    ELSE IF ud /\ get_default_template(name) # <<>>
    THEN [text |-> get_default_template(name),
          cache |-> Put(c, name, get_default_template(name)),
          hit |-> FALSE, stored |-> TRUE]
    ELSE [text |-> <<>>, cache |-> c, hit |-> FALSE, stored |-> FALSE]

\* _load_partial: [text, cache, hit, stored]
LoadPartial(name, ud, dir, ex, fs, c) ==
    IF name \in DOMAIN c
    THEN [text |-> c[name], cache |-> c, hit |-> TRUE, stored |-> FALSE]
    ELSE IF DirUsable(dir, ex) /\ PartialPath(name) \in DOMAIN fs
    THEN [text |-> fs[PartialPath(name)],
          cache |-> Put(c, name, fs[PartialPath(name)]),
          hit |-> FALSE, stored |-> TRUE]
    ELSE IF ud /\ get_default_template(PartialDefaultKey(name)) # <<>>
    THEN [text |-> get_default_template(PartialDefaultKey(name)),
          cache |-> Put(c, name, get_default_template(PartialDefaultKey(name))),
          hit |-> FALSE, stored |-> TRUE]
    ELSE [text |-> <<>>, cache |-> c, hit |-> FALSE, stored |-> FALSE]

LoadRec(kind, name, ld) ==
    [kind |-> kind, name |-> name, text |-> ld.text, hit |-> ld.hit,
     stored |-> ld.stored]

----------------------------------------------------------------------------
(* Partial expansion *)

\* RenderPartialsFrom without the recursive expansion: a partial's text is
\* inserted as loaded.
RECURSIVE RenderPartialsFlat(_, _, _, _, _, _, _, _)
RenderPartialsFlat(content, i, st, ud, depth, dir, ex, fs) ==
    IF i > Len(content) THEN st
    ELSE IF content[i].k # "partial"
    THEN RenderPartialsFlat(content, i + 1,
             [st EXCEPT !.out = Append(@, content[i])], ud, depth, dir, ex, fs)
    ELSE
      LET partial_name == content[i].name
          ld == LoadPartial(partial_name, ud, dir, ex, fs, st.pcache)
          st1 == [st EXCEPT !.pcache = ld.cache,
                            !.loads = Append(@, LoadRec("partial", partial_name, ld))]
      IN RenderPartialsFlat(content, i + 1,
             [st1 EXCEPT !.out = @ \o (IF ld.text = <<>>
                                       THEN << PartialNotFound(partial_name) >>
                                       ELSE ld.text)],
             ud, depth, dir, ex, fs)

\* _render_partials: re.sub walks the references of content left to right;
\* replace_partial loads each and expands its text recursively.  depth is the
\* nesting of _render_partials; st carries [out, pcache, raised, loads].
RECURSIVE RenderPartialsFrom(_, _, _, _, _, _, _, _)
RenderPartialsFrom(content, i, st, ud, depth, dir, ex, fs) ==
    IF st.raised \/ i > Len(content) THEN st
    ELSE IF content[i].k # "partial"
    THEN RenderPartialsFrom(content, i + 1,
             [st EXCEPT !.out = Append(@, content[i])], ud, depth, dir, ex, fs)
    ELSE
      LET partial_name == content[i].name
          ld == LoadPartial(partial_name, ud, dir, ex, fs, st.pcache)
          st1 == [st EXCEPT !.pcache = ld.cache,
                            !.loads = Append(@, LoadRec("partial", partial_name, ld))]
      IN IF ld.text = <<>>
         THEN RenderPartialsFrom(content, i + 1,
                  [st1 EXCEPT !.out = Append(@, PartialNotFound(partial_name))],
                  ud, depth, dir, ex, fs)
         ELSE IF depth + 1 > RecursionLimit
         THEN [st1 EXCEPT !.raised = TRUE]
         ELSE LET sub == RenderPartialsFrom(ld.text, 1, [st1 EXCEPT !.out = <<>>],
                                            ud, depth + 1, dir, ex, fs)
              IN RenderPartialsFrom(content, i + 1,
                     [sub EXCEPT !.out = st.out \o sub.out],
                     ud, depth, dir, ex, fs)

RenderPartials(content, ud, dir, ex, fs, pcache, loads) ==
    RenderPartialsFrom(content, 1,
        [out |-> <<>>, pcache |-> pcache, raised |-> FALSE, loads |-> loads],
        ud, 1, dir, ex, fs)

----------------------------------------------------------------------------
(* Variable substitution *)

\* ReplaceVar treating an empty value as a missing one.
ReplaceVarEmptyMissing(tok, context) ==
    IF tok.name[1] \in DOMAIN context /\ context[tok.name[1]] # <<>>
    THEN context[tok.name[1]]
    ELSE << Var(tok.name[1], 1, 1) >>

\* ReplaceVar writing the placeholder without the spaces around the name.
ReplaceVarBarePlaceholder(tok, context) ==
    IF tok.name[1] \in DOMAIN context THEN context[tok.name[1]]
    ELSE << Var(tok.name[1], 0, 0) >>

\* replace_var: context.get(var_name, f"{{{{ {var_name} }}}}")
ReplaceVar(tok, context) ==
    IF tok.name[1] \in DOMAIN context THEN context[tok.name[1]]
    ELSE << Var(tok.name[1], 1, 1) >>

\* re.sub(pattern, replace_var, template): the replacement is not rescanned
RECURSIVE SubstituteVars(_, _)
SubstituteVars(content, context) ==
    IF content = <<>> THEN <<>>
    ELSE (IF Head(content).k = "var" THEN ReplaceVar(Head(content), context)
          ELSE << Head(content) >>) \o SubstituteVars(Tail(content), context)

----------------------------------------------------------------------------
(* Entry points: [out, raised, cache, pcache, loads] *)

\* render_string
RenderStringResult(template_string, context, ud, dir, ex, fs, c, pcache) ==
    LET rp == RenderPartials(template_string, ud, dir, ex, fs, pcache, <<>>)
    IN [out |-> IF rp.raised THEN <<>> ELSE SubstituteVars(rp.out, context),
        raised |-> rp.raised, cache |-> c, pcache |-> rp.pcache,
        loads |-> rp.loads]

\* RenderResult without the test for an empty template.
RenderResultUnchecked(template_name, context, ud, dir, ex, fs, c, pcache) ==
    LET ld == LoadTemplate(template_name, ud, dir, ex, fs, c)
        rp == RenderPartials(ld.text, ud, dir, ex, fs, pcache,
                             << LoadRec("template", template_name, ld) >>)
    IN [out |-> IF rp.raised THEN <<>> ELSE SubstituteVars(rp.out, context),
        raised |-> rp.raised, cache |-> ld.cache, pcache |-> rp.pcache,
        loads |-> rp.loads]

\* render
RenderResult(template_name, context, ud, dir, ex, fs, c, pcache) ==
    LET ld == LoadTemplate(template_name, ud, dir, ex, fs, c)
        l0 == << LoadRec("template", template_name, ld) >>
    IN IF ld.text = <<>>
       THEN [out |-> << TemplateNotFound(template_name) >>, raised |-> FALSE,
             cache |-> ld.cache, pcache |-> pcache, loads |-> l0]
       ELSE LET rp == RenderPartials(ld.text, ud, dir, ex, fs, pcache, l0)
            IN [out |-> IF rp.raised THEN <<>> ELSE SubstituteVars(rp.out, context),
                raised |-> rp.raised, cache |-> ld.cache, pcache |-> rp.pcache,
                loads |-> rp.loads]

\* render_with_defaults
RenderWithDefaultsResult(template_name, context, dir, ex, fs, c, pcache) ==
    RenderResult(template_name, context, TRUE, dir, ex, fs, c, pcache)

----------------------------------------------------------------------------
(* Inputs of the engine *)

THtml == <<"t", ".html">>
PartialA == <<"partials/", "a", ".html">>

\* Paths of the template directory that are created, rewritten and deleted.
FsPaths == {PartialA, HeaderKey}

\* Texts a file of the template directory holds (<<>> is an empty file).
Bodies ==
    { <<>>,
      << Txt("Z") >>,
      << PRef(<<"a">>) >>,
      << PRef(<<"header">>) >>,
      << Txt("T"), PRef(<<"c">>), Var("x", 0, 0) >> }

TemplateNames == {THtml, BaseHtml, IndexHtml, HeaderKey}

InlineTemplates ==
    { << PRef(<<"a">>) >>,
      << PRef(<<"header">>), PRef(<<"header", ".html">>) >>,
      << Var("x", 1, 1) >>,
      << Var("x", 0, 1) >> }

NoContext == [v \in {} |-> <<>>]

Contexts ==
    { NoContext,
      [v \in {"x"} |-> << Txt("v") >>],
      [v \in {"x"} |-> <<>>] }

----------------------------------------------------------------------------
(* The engine as a state machine *)

NoCall ==
    [op |-> "none", name |-> <<>>, tpl |-> <<>>, ctx |-> NoContext, ud |-> TRUE,
     raised |-> FALSE, out |-> <<>>, loads |-> <<>>, dir |-> "", ex |-> FALSE,
     fs |-> <<>>, cache0 |-> <<>>, pcache0 |-> <<>>]

\* The first text stored for each (kind, name), in the order of the loads.
RECURSIVE RecordLoads(_, _)
RecordLoads(fl, loads) ==
    IF loads = <<>> THEN fl
    ELSE LET l == Head(loads)
             key == <<l.kind, l.name>>
         IN RecordLoads(IF l.stored /\ key \notin DOMAIN fl
                        THEN Put(fl, key, l.text) ELSE fl,
                        Tail(loads))

Called(op, name, tpl, ctx, ud, r) ==
    /\ calls + fsOps < MaxSteps
    /\ calls' = calls + 1
    /\ cache' = r.cache
    /\ partial_cache' = r.pcache
    /\ firstLoad' = RecordLoads(firstLoad, r.loads)
    /\ last' = [op |-> op, name |-> name, tpl |-> tpl, ctx |-> ctx, ud |-> ud,
                raised |-> r.raised, out |-> r.out, loads |-> r.loads,
                dir |-> template_dir, ex |-> dirExists, fs |-> files,
                cache0 |-> cache, pcache0 |-> partial_cache]
    /\ UNCHANGED <<template_dir, dirExists, files, fsOps>>
    /\ UNCHANGED <<siteVars, buildVars, lessonVars, textVars>>

Render(template_name, context, use_defaults) ==
    Called("render", template_name, <<>>, context, use_defaults,
           RenderResult(template_name, context, use_defaults, template_dir,
                        dirExists, files, cache, partial_cache))

RenderString(template_string, context, use_defaults) ==
    Called("render_string", <<>>, template_string, context, use_defaults,
           RenderStringResult(template_string, context, use_defaults,
                              template_dir, dirExists, files, cache,
                              partial_cache))

RenderWithDefaults(template_name, context) ==
    Called("render_with_defaults", template_name, <<>>, context, TRUE,
           RenderWithDefaultsResult(template_name, context, template_dir,
                                    dirExists, files, cache, partial_cache))

\* The template directory changes between calls, outside the engine.
FsChanged ==
    /\ template_dir # ""
    /\ calls + fsOps < MaxSteps
    /\ fsOps' = fsOps + 1
    /\ UNCHANGED <<template_dir, cache, partial_cache, last, firstLoad, calls>>
    /\ UNCHANGED <<siteVars, buildVars, lessonVars, textVars>>

WriteFile(path, text) ==
    /\ FsChanged
    /\ dirExists' = TRUE
    /\ files' = Put(files, path, text)

DeleteFile(path) ==
    /\ FsChanged
    /\ path \in DOMAIN files
    /\ files' = [p \in DOMAIN files \ {path} |-> files[p]]
    /\ UNCHANGED dirExists

RemoveDir ==
    /\ FsChanged
    /\ dirExists
    /\ dirExists' = FALSE
    /\ files' = <<>>

\* What the template directory holds when the engine is constructed: nothing,
\* a header partial of plain text, or a partial a that includes the header.
InitialDirs ==
    { <<>>,
      [q \in {HeaderKey} |-> << Txt("Z") >>],
      [q \in {PartialA} |-> << PRef(<<"header">>) >>] }

\* TemplateEngine.__init__, over any configured directory state
EngineInit ==
    /\ template_dir \in {"", "tpl"}
    /\ files \in (IF template_dir = "" THEN {<<>>} ELSE InitialDirs)
    /\ dirExists \in (IF template_dir = "" THEN {FALSE}
                      ELSE IF files # <<>> THEN {TRUE} ELSE BOOLEAN)
    /\ cache = <<>>
    /\ partial_cache = <<>>
    /\ last = NoCall
    /\ firstLoad = <<>>
    /\ calls = 0
    /\ fsOps = 0

SiteIdle ==
    /\ course = TCourse(<<>>, <<>>, <<>>, <<>>, <<>>, <<>>)
    /\ outdir = <<>>
    /\ pc = "idle"
    /\ li = 0
    /\ made = FALSE
    /\ index_html = <<>>

\* no build under way: render_course called directly
BuildIdle ==
    /\ tml = <<>>
    /\ err = NoError
    /\ exit_code = -1

LessonIdle ==
    /\ slides = <<>>
    /\ slide_num = 0

TextIdle ==
    /\ md = <<>>
    /\ md_html = <<>>

Init == EngineInit /\ SiteIdle /\ BuildIdle /\ LessonIdle /\ TextIdle

Next ==
    \/ \E n \in TemplateNames, c \in Contexts, ud \in BOOLEAN : Render(n, c, ud)
    \/ \E t \in InlineTemplates, c \in Contexts, ud \in BOOLEAN : RenderString(t, c, ud)
    \/ \E n \in TemplateNames, c \in Contexts : RenderWithDefaults(n, c)
    \/ \E p \in FsPaths, b \in Bodies : WriteFile(p, b)
    \/ \E p \in FsPaths : DeleteFile(p)
    \/ RemoveDir

Spec == Init /\ [][Next]_vars

----------------------------------------------------------------------------
(* Text of the site renderer: strings of characters *)

LowerChars == {"a", "b", "d", "e", "i", "l", "n", "o", "r", "s", "t", "x"}
UpperChars == {"A", "B", "I"}
DigitChars == {"0", "1"}
SpaceChars == {" ", "\t", "\n"}

\* str.lower() on one character
Lower(c) ==
    CASE c = "A" -> "a"
      [] c = "B" -> "b"
      [] c = "I" -> "i"
      [] OTHER -> c

LowerStr(s) == [i \in 1..Len(s) |-> Lower(s[i])]

\* str.strip(chars): characters of the set removed from both ends
RECURSIVE StripLeft(_, _)
StripLeft(s, chars) ==
    IF s # <<>> /\ Head(s) \in chars THEN StripLeft(Tail(s), chars) ELSE s

RECURSIVE StripRight(_, _)
StripRight(s, chars) ==
    IF s # <<>> /\ s[Len(s)] \in chars
    THEN StripRight(SubSeq(s, 1, Len(s) - 1), chars) ELSE s

StripChars(s, chars) == StripRight(StripLeft(s, chars), chars)

\* [a-zA-Z0-9_-]
IsSlugChar(c) == c \in LowerChars \cup UpperChars \cup DigitChars \cup {"_", "-"}

\* the character classes of safe_filename's two patterns:
\* [^a-zA-Z0-9_-] and -
InClass(c, class) == IF class = "dash" THEN c = "-" ELSE ~IsSlugChar(c)

\* re.sub(r"<class>+", "-", s): each maximal run of characters of the class
\* becomes one "-"
RECURSIVE SubRuns(_, _, _)
SubRuns(s, class, inRun) ==
    IF s = <<>> THEN <<>>
    ELSE IF InClass(Head(s), class)
    THEN (IF inRun THEN <<>> ELSE <<"-">>) \o SubRuns(Tail(s), class, TRUE)
    ELSE <<Head(s)>> \o SubRuns(Tail(s), class, FALSE)

\* safe_filename without lowering and without the character class: the spaces
\* and dashes at the ends go, the rest of the title stays.
safe_filename_raw(name) ==
    LET n == StripChars(StripChars(name, SpaceChars), {"-"})
    IN IF n = <<>> THEN <<"l", "e", "s", "s", "o", "n">> ELSE n

\* safe_filename without 'or "lesson"': what is left of the title, even
\* when nothing is.
safe_filename_no_default(name) ==
    LET n1 == SubRuns(LowerStr(StripChars(name, SpaceChars)), "nonslug", FALSE)
    IN StripChars(SubRuns(n1, "dash", FALSE), {"-"})

safe_filename(name) ==
    LET n1 == SubRuns(LowerStr(StripChars(name, SpaceChars)), "nonslug", FALSE)
        n2 == StripChars(SubRuns(n1, "dash", FALSE), {"-"})
    IN IF n2 = <<>> THEN <<"l", "e", "s", "s", "o", "n">> ELSE n2

\* sep.join(parts)
RECURSIVE Join(_, _)
Join(parts, sep) ==
    IF parts = <<>> THEN <<>>
    ELSE IF Len(parts) = 1 THEN parts[1]
    ELSE parts[1] \o sep \o Join(Tail(parts), sep)

\* str(n) for n >= 0, as characters
RECURSIVE IntStr(_)
IntStr(n) ==
    LET d == <<"0", "1", "2", "3", "4", "5", "6", "7", "8", "9">>
    IN IF n < 10 THEN << d[n + 1] >> ELSE IntStr(n \div 10) \o << d[(n % 10) + 1] >>

\* int(s) for an optional sign and decimal digits; anything else raises
\* ValueError
IsIntText(s) ==
    LET body == IF s # <<>> /\ Head(s) \in {"-", "+"} THEN Tail(s) ELSE s
    IN body # <<>> /\ \A i \in DOMAIN body : body[i] \in
           {"0", "1", "2", "3", "4", "5", "6", "7", "8", "9"}

RECURSIVE DigitsVal(_)
DigitsVal(s) ==
    IF s = <<>> THEN 0
    ELSE DigitsVal(SubSeq(s, 1, Len(s) - 1)) * 10
         + (CHOOSE d \in 0..9 : IntStr(d) = << s[Len(s)] >>)

IntOf(s) ==
    IF Head(s) = "-" THEN 0 - DigitsVal(Tail(s))
    ELSE IF Head(s) = "+" THEN DigitsVal(Tail(s))
    ELSE DigitsVal(s)

----------------------------------------------------------------------------
(* escape_html and safe_markdown *)
(* Text is a sequence of characters; the markup safe_markdown itself emits *)
(* ("<strong>", "<p>", ...) is one element each, told apart from the       *)
(* characters of the input, whose "<" is always escaped.                   *)

\* html.escape(c, quote=True) on one character
EscapeChar(c) ==
    CASE c = "&" -> <<"&", "a", "m", "p", ";">>
      [] c = "<" -> <<"&", "l", "t", ";">>
      [] c = ">" -> <<"&", "g", "t", ";">>
      [] c = "\"" -> <<"&", "q", "u", "o", "t", ";">>
      [] c = "'" -> <<"&", "#", "x", "2", "7", ";">>
      [] OTHER -> << c >>

\* escape_html: None and "" give ""
RECURSIVE escape_html(_)
escape_html(text) ==
    IF text = <<>> THEN <<>> ELSE EscapeChar(Head(text)) \o escape_html(Tail(text))

\* The backtick, a character a TLA+ string cannot hold.
Tick == "BACKTICK"

\* the pattern p occurs in s at position i
At(s, i, p) == i + Len(p) - 1 <= Len(s) /\ SubSeq(s, i, i + Len(p) - 1) = p

StartsWith(s, p) == At(s, 1, p)

\* the first position from i on where p occurs in s, 0 when there is none
RECURSIVE FindFrom(_, _, _)
FindFrom(s, i, p) ==
    IF i + Len(p) - 1 > Len(s) THEN 0
    ELSE IF At(s, i, p) THEN i ELSE FindFrom(s, i + 1, p)

\* Character classes of the patterns of safe_markdown
DecimalDigits == {"0", "1", "2", "3", "4", "5", "6", "7", "8", "9"}

InMdClass(c, class) ==
    CASE class = "word" ->
            c \in LowerChars \cup UpperChars \cup DecimalDigits
                 \cup {"_", "j", "C", "O", "D", "E", "L", "K"}
      [] class = "digit" -> c \in DecimalDigits
      [] class = "notstar" -> c # "*"
      [] class = "notstarnl" -> c \notin {"*", "\n"}
      [] class = "nottick" -> c # Tick

\* the last position of the longest run of characters of the class that
\* starts at i (i - 1 when the run is empty)
RECURSIVE RunEnd(_, _, _)
RunEnd(s, i, class) ==
    IF i <= Len(s) /\ InMdClass(s[i], class) THEN RunEnd(s, i + 1, class)
    ELSE i - 1

Fence == <<Tick, Tick, Tick>>

\* code_block_placeholder.format(idx)
CodeBlockPlaceholder(idx) ==
    <<"_", "_", "_", "C", "O", "D", "E", "_", "B", "L", "O", "C", "K", "_">>
    \o IntStr(idx) \o <<"_", "_", "_">>

\* the code block re.sub (three backticks, an optional word, a newline, the
\* shortest text up to three backticks, DOTALL) with replace_code_block:
\* [text, blocks], each block the language and the escaped code
RECURSIVE ExtractCodeBlocks(_, _, _)
ExtractCodeBlocks(s, i, blocks) ==
    IF i > Len(s) THEN [text |-> <<>>, blocks |-> blocks]
    ELSE LET w == RunEnd(s, i + 3, "word")
             close == FindFrom(s, w + 2, Fence)
         IN IF At(s, i, Fence) /\ At(s, w + 1, << "\n" >>) /\ close > 0
            THEN LET rest ==
                         ExtractCodeBlocks(s, close + 3,
                             Append(blocks,
                                    [lang |-> SubSeq(s, i + 3, w),
                                     code |-> escape_html(SubSeq(s, w + 2, close - 1))]))
                 IN [text |-> CodeBlockPlaceholder(Len(blocks)) \o rest.text,
                     blocks |-> rest.blocks]
            ELSE LET rest == ExtractCodeBlocks(s, i + 1, blocks)
                 IN [text |-> << s[i] >> \o rest.text, blocks |-> rest.blocks]

\* the bold re.sub: two stars, one or more characters other than a star,
\* two stars become <strong>..</strong>
RECURSIVE Bold(_, _)
Bold(s, i) ==
    IF i > Len(s) THEN <<>>
    ELSE LET r == RunEnd(s, i + 2, "notstar")
         IN IF At(s, i, <<"*", "*">>) /\ r >= i + 2 /\ At(s, r + 1, <<"*", "*">>)
            THEN << "<strong>" >> \o SubSeq(s, i + 2, r) \o << "</strong>" >>
                 \o Bold(s, r + 3)
            ELSE << s[i] >> \o Bold(s, i + 1)

\* the italic re.sub: a star not next to another star, one or more
\* characters other than a star and a newline, a star not followed by a
\* star become <em>..</em>
RECURSIVE Italic(_, _)
Italic(s, i) ==
    IF i > Len(s) THEN <<>>
    ELSE LET r == RunEnd(s, i + 1, "notstarnl")
         IN IF /\ s[i] = "*"
               /\ (i = 1 \/ s[i - 1] # "*")
               /\ r >= i + 1
               /\ At(s, r + 1, << "*" >>)
               /\ ~At(s, r + 2, << "*" >>)
            THEN << "<em>" >> \o SubSeq(s, i + 1, r) \o << "</em>" >>
                 \o Italic(s, r + 2)
            ELSE << s[i] >> \o Italic(s, i + 1)

\* str.splitlines(): the lines between the newlines, no empty last line
RECURSIVE SplitLines(_)
SplitLines(s) ==
    IF s = <<>> THEN <<>>
    ELSE LET nl == FindFrom(s, 1, << "\n" >>)
         IN IF nl = 0 THEN << s >>
            ELSE << SubSeq(s, 1, nl - 1) >> \o SplitLines(SubSeq(s, nl + 1, Len(s)))

CodeBlockPrefix ==
    <<"_", "_", "_", "C", "O", "D", "E", "_", "B", "L", "O", "C", "K", "_">>

\* re.match(r"___CODE_BLOCK_(\d+)___", s): the digits matched, <<>> when
\* the line does not start with a placeholder
CodeMatch(s) ==
    LET d == RunEnd(s, Len(CodeBlockPrefix) + 1, "digit")
    IN IF /\ StartsWith(s, CodeBlockPrefix)
          /\ d > Len(CodeBlockPrefix)
          /\ At(s, d + 1, <<"_", "_", "_">>)
       THEN SubSeq(s, Len(CodeBlockPrefix) + 1, d)
       ELSE <<>>

\* one round of 'for line in md_escaped.splitlines()': the line appended to
\* lines; code_blocks[idx] raises IndexError when idx is not a block
LineHtml(line, blocks) ==
    LET t == StripChars(line, SpaceChars)
        m == CodeMatch(t)
    IN IF m # <<>>
       THEN IF DigitsVal(m) >= Len(blocks)
            THEN [raised |-> TRUE, line |-> <<>>]
            ELSE [raised |-> FALSE,
                  line |-> << "<pre><code class=\"language-" >>
                           \o escape_html(blocks[DigitsVal(m) + 1].lang)
                           \o << "\">" >>
                           \o StripChars(blocks[DigitsVal(m) + 1].code, SpaceChars)
                           \o << "</code></pre>" >>]
       ELSE [raised |-> FALSE,
             line |->
                 IF StartsWith(t, <<"#", "#", "#", " ">>)
                 THEN << "<h3>" >> \o SubSeq(t, 5, Len(t)) \o << "</h3>" >>
                 ELSE IF StartsWith(t, <<"#", "#", " ">>)
                 THEN << "<h2>" >> \o SubSeq(t, 4, Len(t)) \o << "</h2>" >>
                 ELSE IF StartsWith(t, <<"#", " ">>)
                 THEN << "<h1>" >> \o SubSeq(t, 3, Len(t)) \o << "</h1>" >>
                 ELSE IF StartsWith(t, <<"-", " ">>)
                 THEN << "<li>" >> \o SubSeq(t, 3, Len(t)) \o << "</li>" >>
                 ELSE IF t = <<>> THEN <<>>
                 ELSE << "<p>" >> \o t \o << "</p>" >>]

\* the inline code re.sub: a backtick, one or more characters other than a
\* backtick, a backtick become <code>..</code>
RECURSIVE InlineCode(_, _)
InlineCode(s, i) ==
    IF i > Len(s) THEN <<>>
    ELSE LET r == RunEnd(s, i + 1, "nottick")
         IN IF s[i] = Tick /\ r >= i + 1 /\ At(s, r + 1, << Tick >>)
            THEN << "<code>" >> \o SubSeq(s, i + 1, r) \o << "</code>" >>
                 \o InlineCode(s, r + 2)
            ELSE << s[i] >> \o InlineCode(s, i + 1)

\* the second loop: inline code in paragraph, list and heading lines only
ProcessedLine(line) ==
    IF line # <<>> /\ Head(line) \in {"<p>", "<li>", "<h1>", "<h2>", "<h3>"}
    THEN InlineCode(line, 1) ELSE line

\* the third loop with a list that, once opened, is closed only at the end
\* of the text
RECURSIVE WrapListsOpenToEnd(_, _)
WrapListsOpenToEnd(lines, in_ul) ==
    IF lines = <<>> THEN (IF in_ul THEN << << "</ul>" >> >> ELSE <<>>)
    ELSE IF Head(lines) # <<>> /\ Head(Head(lines)) = "<li>"
    THEN (IF in_ul THEN <<>> ELSE << << "<ul>" >> >>)
         \o << Head(lines) >> \o WrapListsOpenToEnd(Tail(lines), TRUE)
    ELSE << Head(lines) >> \o WrapListsOpenToEnd(Tail(lines), in_ul)

\* the third loop: runs of <li> lines wrapped in <ul> and </ul>
RECURSIVE WrapLists(_, _)
WrapLists(lines, in_ul) ==
    IF lines = <<>> THEN (IF in_ul THEN << << "</ul>" >> >> ELSE <<>>)
    ELSE IF Head(lines) # <<>> /\ Head(Head(lines)) = "<li>"
    THEN (IF in_ul THEN <<>> ELSE << << "<ul>" >> >>)
         \o << Head(lines) >> \o WrapLists(Tail(lines), TRUE)
    ELSE (IF in_ul THEN << << "</ul>" >> >> ELSE <<>>)
         \o << Head(lines) >> \o WrapLists(Tail(lines), FALSE)

\* safe_markdown: [out, raised].  Restoring the placeholders after the
\* escape changes nothing: escape_html leaves a placeholder as it is.
safe_markdown(text) ==
    IF text = <<>> THEN [out |-> <<>>, raised |-> FALSE]
    ELSE LET x == ExtractCodeBlocks(StripChars(text, SpaceChars), 1, <<>>)
             md_escaped == Italic(Bold(escape_html(x.text), 1), 1)
             src == SplitLines(md_escaped)
             lines == [i \in DOMAIN src |-> LineHtml(src[i], x.blocks)]
         IN IF \E i \in DOMAIN lines : lines[i].raised
            THEN [out |-> <<>>, raised |-> TRUE]
            ELSE [out |-> Join(WrapLists([i \in DOMAIN lines |->
                                             ProcessedLine(lines[i].line)],
                                        FALSE),
                              << "\n" >>),
                  raised |-> FALSE]

----------------------------------------------------------------------------
(* Courses *)

\* Lesson titles of the parsed courses.
Titles ==
    { <<"I", "n", "t", "r", "o">>,
      <<"i", "n", "t", "r", "o", "!">>,
      <<"i", "n", "d", "e", "x">>,
      <<>>,
      <<"A", " ", "&", " ", "b">>,
      <<"a", "-", "b">> }

\* A lesson that carries a title only: no id, no duration, no content,
\* activities or assessments.
BareLesson(title) == TLesson(<<>>, title, <<>>, <<>>, <<>>, <<>>, <<>>)

LessonSeqs ==
    UNION { [1..n -> { BareLesson(t) : t \in Titles }] : n \in 0..MaxLessons }

RECURSIVE SumTo(_, _)
SumTo(f, n) == IF n = 0 THEN 0 ELSE f[n] + SumTo(f, n - 1)

\* The ways to cut n lessons into m modules, as the number of lessons of each.
Cuts(n, m) == { sz \in [1..m -> 0..n] : SumTo(sz, m) = n }

\* The modules of lessons ls cut by sz, in order.
ModulesOf(ls, sz) ==
    [i \in DOMAIN sz |->
        TModule(<<>>, <<>>, 0, SubSeq(ls, SumTo(sz, i - 1) + 1, SumTo(sz, i)))]

\* TCourse as parse_tml returns it: the modules, each with its lessons.
Courses ==
    { TCourse(<<>>, <<>>, <<>>, <<>>, <<>>, ModulesOf(ls, sz)) :
        <<ls, sz>> \in UNION { {ls} \X Cuts(Len(ls), m) :
                                <<ls, m>> \in LessonSeqs \X (0..MaxModules) } }

\* for m in course.modules: for l in m.lessons: the lessons in page order
RECURSIVE LessonsFrom(_, _)
LessonsFrom(modules, i) ==
    IF i > Len(modules) THEN <<>>
    ELSE modules[i].lessons \o LessonsFrom(modules, i + 1)

AllLessons(c) == LessonsFrom(c.modules, 1)

\* sum(len(m.lessons) for m in course.modules)
RECURSIVE TotalFrom(_, _)
TotalFrom(modules, i) ==
    IF i > Len(modules) THEN 0
    ELSE Len(modules[i].lessons) + TotalFrom(modules, i + 1)

total_lessons(c) == TotalFrom(c.modules, 1)

----------------------------------------------------------------------------
(* render_course as a state machine: one step per file written *)

\* os.path.join(outdir, "index.html"), relative to outdir
IndexFile == <<"i", "n", "d", "e", "x", ".html">>

\* LessonFile naming the page by the title as written.
LessonFileByTitle(l) == safe_filename_raw(l.title) \o <<".html">>

\* LessonFile naming the page by the lesson's id when it has one.
LessonFileById(l) ==
    (IF l.id # <<>> THEN l.id ELSE safe_filename(l.title)) \o <<".html">>

\* os.path.join(outdir, f"{safe_filename(l.title)}.html"), relative to outdir
LessonFile(l) == safe_filename(l.title) \o <<".html">>

\* A string of the course model as page text: one text token per character.
Str(s) == [i \in DOMAIN s |-> Txt(s[i])]

\* a value of the context that may be None: a replacement of None
\* substitutes nothing
CtxStr(x) == IF x = PyNone THEN <<>> ELSE Str(x)

\* x or default
OrElse(x, default) == IF x = <<>> THEN default ELSE x

LessonItemHtml == <<"partials/", "lesson_item", ".html">>
ModuleCardHtml == <<"partials/", "module_card", ".html">>
IndexHeaderHtml == <<"partials/", "index_header", ".html">>

\* engine.render_with_defaults(name, context) on render_course's engine: the
\* text returned.  The template directory does not change during
\* render_course, so what the engine's caches hold is what its files hold
\* and a call renders as on a fresh engine.
EngineOut(name, context) ==
    RenderWithDefaultsResult(name, context, template_dir, dirExists, files,
                             <<>>, <<>>).out

\* the call raises: the partials are expanded before the context is used,
\* so this does not depend on the context
EngineRaises(name) ==
    RenderWithDefaultsResult(name, NoContext, template_dir, dirExists, files,
                             <<>>, <<>>).raised

\* lessons_list of one module
LessonItems(ls) ==
    [i \in DOMAIN ls |->
        EngineOut(LessonItemHtml,
                  ("lesson_file" :> Str(LessonFile(ls[i])))
                  @@ ("lesson_title" :> Str(ls[i].title))
                  @@ ("duration" :> Str(ls[i].duration)))]

\* modules_html
ModuleCards(ms) ==
    [i \in DOMAIN ms |->
        EngineOut(ModuleCardHtml,
                  ("mod_title" :> Str(ms[i].title))
                  @@ ("lessons" :> Join(LessonItems(ms[i].lessons),
                                        << Txt("\n") >>)))]

\* obj_items: "\n".join([f"<li>{o}</li>" for o in course.objectives])
ObjItems(objectives) ==
    Join([i \in DOMAIN objectives |->
              << Txt("<li>") >> \o Str(objectives[i]) \o << Txt("</li>") >>],
         << Txt("\n") >>)

NA == <<"n", "/", "a">>

\* index_html of render_course
IndexPage(c) ==
    EngineOut(BaseHtml,
        ("title" :> (Str(c.title) \o << Txt(" -- Course") >>))
        @@ ("course_id" :> CtxStr(c.id))
        @@ ("total_lessons" :> Str(IntStr(total_lessons(c))))
        @@ ("content" :>
               << Txt("<div class=card><h2>Objectives</h2><ul>") >>
               \o ObjItems(c.objectives) \o << Txt("</ul></div>\n") >>
               \o Join(ModuleCards(c.modules), << Txt("\n") >>))
        @@ ("header_html" :>
               EngineOut(HeaderKey,
                   ("header_content" :>
                       EngineOut(IndexHeaderHtml,
                           ("title" :> Str(c.title))
                           @@ ("level" :> Str(OrElse(c.level, NA)))
                           @@ ("duration" :> Str(OrElse(c.duration, NA))))))))

\* the templates the index page is rendered from
IndexTemplates(c) ==
    {IndexHeaderHtml, HeaderKey, BaseHtml}
    \cup (IF c.modules # <<>> THEN {ModuleCardHtml} ELSE {})
    \cup (IF AllLessons(c) # <<>> THEN {LessonItemHtml} ELSE {})

\* an exception of the engine while the index page is rendered
IndexRaises(c) == \E n \in IndexTemplates(c) : EngineRaises(n)

\* makedirs, the index page rendered and written; an exception of the engine
\* leaves render_course (and build exits with status 1)
RenderIndex ==
    /\ pc = "start"
    /\ made' = TRUE
    /\ IF IndexRaises(course)
       THEN /\ pc' = "exit"
            /\ err' = [exc |-> "RecursionError", msg |-> <<>>]
            /\ exit_code' = IF tml = <<>> THEN exit_code ELSE 1
            /\ UNCHANGED <<outdir, li, index_html>>
       ELSE /\ outdir' = Put(outdir, IndexFile, [page |-> "index", lesson |-> 0])
            /\ index_html' = IndexPage(course)
            /\ li' = 1
            /\ pc' = IF AllLessons(course) = <<>> THEN "done" ELSE "lessons"
            /\ UNCHANGED <<err, exit_code>>
    /\ UNCHANGED <<course, tml>>
    /\ UNCHANGED <<engineVars, lessonVars, textVars>>

\* one round of the lesson loop: the page of lesson li rendered and written
WriteLesson ==
    /\ pc = "lessons"
    /\ outdir' = Put(outdir, LessonFile(AllLessons(course)[li]),
                     [page |-> "lesson", lesson |-> li])
    /\ li' = li + 1
    /\ pc' = IF li = Len(AllLessons(course)) THEN "done" ELSE "lessons"
    /\ UNCHANGED <<course, made, index_html>>
    /\ UNCHANGED <<engineVars, buildVars, lessonVars, textVars>>

EngineIdle ==
    /\ template_dir = ""
    /\ dirExists = FALSE
    /\ files = <<>>
    /\ cache = <<>>
    /\ partial_cache = <<>>
    /\ last = NoCall
    /\ firstLoad = <<>>
    /\ calls = 0
    /\ fsOps = 0

\* render_course(course, outdir) on a parsed course and a fresh output directory
SiteInit ==
    /\ EngineIdle
    /\ BuildIdle
    /\ LessonIdle
    /\ TextIdle
    /\ made = FALSE
    /\ index_html = <<>>
    /\ course \in Courses
    /\ outdir = <<>>
    /\ pc = "start"
    /\ li = 1

SiteNext == RenderIndex \/ WriteLesson

SpecSite == SiteInit /\ [][SiteNext]_vars

----------------------------------------------------------------------------
(* render_course on lessons that carry ids *)

\* l.attrib.get("id", ""): the ids of the lessons, <<>> when absent
Ids == { <<>>, <<"a">>, <<"b">> }

\* Titles of which two share the slug "intro".
IdTitles ==
    { <<"I", "n", "t", "r", "o">>,
      <<"i", "n", "t", "r", "o", "!">>,
      <<"a", "-", "b">> }

M1 == <<"M", "1">>

\* One module (order 1, title "M1") of lessons with ids.
IdCourses ==
    { TCourse(<<>>, <<>>, <<>>, <<>>, <<>>, << TModule(<<>>, M1, 1, ls) >>) :
        ls \in UNION { [1..n -> { TLesson(i, t, <<>>, <<>>, <<>>, <<>>, M1) :
                                    i \in Ids, t \in IdTitles }] :
                        n \in 0..MaxLessons } }

IdInit ==
    /\ EngineIdle
    /\ BuildIdle
    /\ LessonIdle
    /\ TextIdle
    /\ made = FALSE
    /\ index_html = <<>>
    /\ course \in IdCourses
    /\ outdir = <<>>
    /\ pc = "start"
    /\ li = 1

SpecIds == IdInit /\ [][SiteNext]_vars

----------------------------------------------------------------------------
(* TML documents and parse_tml *)
(* An element is its attributes in document order, a sequence of            *)
(* <<name, value>>, and its child elements.  Messages are sequences of     *)
(* literal chunks and of the characters of the values put into them.       *)

HasAttr(attrib, name) == \E i \in DOMAIN attrib : attrib[i][1] = name

\* element.attrib.get(name, default)
AttrGet(attrib, name, default) ==
    IF HasAttr(attrib, name)
    THEN attrib[CHOOSE i \in DOMAIN attrib : attrib[i][1] = name][2]
    ELSE default

\* ", ".join(element.attrib.keys())
AttrKeys(attrib) ==
    Join([i \in DOMAIN attrib |-> << attrib[i][1] >>], << ", " >>)

\* get_required_attr reporting no attribute as present.
get_required_attr_none_listed(element, attr_name, element_name, element_id) ==
    IF HasAttr(element.attrib, attr_name)
    THEN [ok |-> TRUE, value |-> AttrGet(element.attrib, attr_name, <<>>)]
    ELSE [ok |-> FALSE,
          msg |-> << "Missing required attribute '", attr_name, "' on <",
                     element_name, "> element" >>
                  \o (IF element_id # <<>>
                      THEN << " with id '" >> \o element_id \o << "'" >>
                      ELSE <<>>)
                  \o << ".\nAvailable attributes: ", "none" >>
                  \o << "\nPlease add the '", attr_name,
                        "' attribute to this element." >>]

\* get_required_attr: the value, or the message of the TMLParseError raised
get_required_attr(element, attr_name, element_name, element_id) ==
    IF HasAttr(element.attrib, attr_name)
    THEN [ok |-> TRUE, value |-> AttrGet(element.attrib, attr_name, <<>>)]
    ELSE [ok |-> FALSE,
          msg |-> << "Missing required attribute '", attr_name, "' on <",
                     element_name, "> element" >>
                  \o (IF element_id # <<>>
                      THEN << " with id '" >> \o element_id \o << "'" >>
                      ELSE <<>>)
                  \o << ".\nAvailable attributes: " >>
                  \o (IF element.attrib # <<>> THEN AttrKeys(element.attrib)
                      ELSE << "none" >>)
                  \o << "\nPlease add the '", attr_name,
                        "' attribute to this element." >>]

\* validate_tml_xsd reporting a missing library or schema as a failure.
validate_tml_xsd_strict(t) ==
    IF ~t.lxml \/ ~t.xsd
    THEN [valid |-> FALSE, message |-> << "Validation error" >>]
    ELSE IF t.verdict = "schema_error"
    THEN [valid |-> FALSE, message |-> << "XSD schema error" >>]
    ELSE IF ~t.doc.wellformed
    THEN [valid |-> FALSE, message |-> << "XML syntax error" >>]
    ELSE IF t.verdict = "invalid"
    THEN [valid |-> FALSE, message |-> << "TML file does not match schema" >>]
    ELSE [valid |-> TRUE, message |-> << "XSD validation passed" >>]

\* validate_tml_xsd: [valid, message]
validate_tml_xsd(t) ==
    IF ~t.lxml
    THEN [valid |-> TRUE, message |-> << "XSD validation skipped (lxml not installed)" >>]
    ELSE IF ~t.xsd
    THEN [valid |-> TRUE, message |-> << "XSD validation skipped (schema file not found)" >>]
    ELSE IF t.verdict = "schema_error"
    THEN [valid |-> FALSE, message |-> << "XSD schema error" >>]
    ELSE IF ~t.doc.wellformed
    THEN [valid |-> FALSE, message |-> << "XML syntax error" >>]
    ELSE IF t.verdict = "invalid"
    THEN [valid |-> FALSE, message |-> << "TML file does not match schema" >>]
    ELSE [valid |-> TRUE, message |-> << "XSD validation passed" >>]

Raised(exc, msg) == [ok |-> FALSE, exc |-> exc, msg |-> msg]

\* An element below <lesson>: its tag, attributes, text and child elements.
Element(tag, attrib, text, children) ==
    [tag |-> tag, attrib |-> attrib, text |-> text, children |-> children]

\* el.findall("./tag")
FindAll(el, tag) == SelectSeq(el.children, LAMBDA c : c.tag = tag)

\* (el.findtext("./tag") or "").strip()
FindText(el, tag) ==
    IF FindAll(el, tag) = <<>> THEN <<>>
    ELSE StripChars(FindAll(el, tag)[1].text, SpaceChars)

\* float(s) on the texts of the documents: decimal digits with an optional
\* fraction, nan and inf; any other text of theirs raises ValueError.  A
\* number is its whole part and the digits of its fraction without the
\* trailing zeros.
IsDecimalText(s) ==
    LET dot == FindFrom(s, 1, << "." >>)
        whole == IF dot = 0 THEN s ELSE SubSeq(s, 1, dot - 1)
        frac == IF dot = 0 THEN <<>> ELSE SubSeq(s, dot + 1, Len(s))
    IN /\ whole # <<>>
       /\ \A i \in DOMAIN whole : whole[i] \in DecimalDigits
       /\ \A i \in DOMAIN frac : frac[i] \in DecimalDigits

ParseFloat(s) ==
    LET dot == FindFrom(s, 1, << "." >>)
    IN IF s = <<"n", "a", "n">> THEN [ok |-> TRUE, kind |-> "nan", whole |-> 0, frac |-> <<>>]
       ELSE IF s = <<"i", "n", "f">> THEN [ok |-> TRUE, kind |-> "inf", whole |-> 0, frac |-> <<>>]
       ELSE IF ~IsDecimalText(s) THEN [ok |-> FALSE, kind |-> "none", whole |-> 0, frac |-> <<>>]
       ELSE [ok |-> TRUE, kind |-> "num",
             whole |-> DigitsVal(IF dot = 0 THEN s ELSE SubSeq(s, 1, dot - 1)),
             frac |-> IF dot = 0 THEN <<>>
                      ELSE StripRight(SubSeq(s, dot + 1, Len(s)), {"0"})]

\* the choices of an mcq or msq question
Choices(q) ==
    LET chs == FindAll(q, "choice")
    IN [i \in DOMAIN chs |->
           [text |-> StripChars(chs[i].text, SpaceChars),
            correct |-> LowerStr(AttrGet(chs[i].attrib, "correct",
                                         <<"f", "a", "l", "s", "e">>))
                        = <<"t", "r", "u", "e">>]]

\* the pairs of a matching question
Pairs(q) ==
    LET ps == FindAll(q, "pair")
    IN [i \in DOMAIN ps |-> [left |-> FindText(ps[i], "left"),
                             right |-> FindText(ps[i], "right")]]

\* the items of an ordering question: the non-empty ones
Items(q) ==
    LET its == FindAll(q, "item")
        texts == [i \in DOMAIN its |-> StripChars(its[i].text, SpaceChars)]
    IN SelectSeq(texts, LAMBDA t : t # <<>>)

\* ' name="value"' for each attribute, the value escaped
RECURSIVE SerializeAttrs(_)
SerializeAttrs(attrib) ==
    IF attrib = <<>> THEN <<>>
    ELSE << " ", attrib[1][1], "=\"" >> \o escape_html(attrib[1][2]) \o << "\"" >>
         \o SerializeAttrs(Tail(attrib))

\* ET.tostring(el, encoding='unicode') for an element whose children hold
\* text only: the start tag with its attributes, the text and the children,
\* the end tag; an element without text and children is written <tag />
SerializeLeaf(el) ==
    << "<", el.tag >> \o SerializeAttrs(el.attrib)
    \o (IF el.text = <<>> THEN << " />" >>
        ELSE << ">" >> \o escape_html(el.text) \o << "</", el.tag, ">" >>)

RECURSIVE SerializeAll(_)
SerializeAll(els) ==
    IF els = <<>> THEN <<>> ELSE SerializeLeaf(els[1]) \o SerializeAll(Tail(els))

Serialize(el) ==
    << "<", el.tag >> \o SerializeAttrs(el.attrib)
    \o (IF el.text = <<>> /\ el.children = <<>> THEN << " />" >>
        ELSE << ">" >> \o escape_html(el.text) \o SerializeAll(el.children)
             \o << "</", el.tag, ">" >>)

Mcq == <<"m", "c", "q">>
Msq == <<"m", "s", "q">>
Truefalse == <<"t", "r", "u", "e", "f", "a", "l", "s", "e">>
Short == <<"s", "h", "o", "r", "t">>
Long == <<"l", "o", "n", "g">>
Code == <<"c", "o", "d", "e">>
Matching == <<"m", "a", "t", "c", "h", "i", "n", "g">>
Ordering == <<"o", "r", "d", "e", "r", "i", "n", "g">>

\* the eight question types parse_tml and render_course know
KnownTypes == {Mcq, Msq, Truefalse, Short, Long, Code, Matching, Ordering}

\* data of one question, by its type; an unknown type keeps the serialized
\* element
QuestionData(q, qtype) ==
    IF qtype \in {Mcq, Msq}
    THEN [kind |-> "choice", stem |-> FindText(q, "stem"), choices |-> Choices(q)]
    ELSE IF qtype = Truefalse
    THEN [kind |-> "truefalse", statement |-> FindText(q, "statement"),
          answer |-> IF FindAll(q, "answer") = <<>> THEN <<"f", "a", "l", "s", "e">>
                     ELSE LowerStr(AttrGet(FindAll(q, "answer")[1].attrib, "value",
                                           <<"f", "a", "l", "s", "e">>))]
    ELSE IF qtype \in {Short, Long}
    THEN [kind |-> "text", prompt |-> FindText(q, "prompt"),
          solution |-> FindText(q, "solution")]
    ELSE IF qtype = Code
    THEN [kind |-> "code", prompt |-> FindText(q, "prompt"),
          lang |-> FindText(q, "lang"), starter |-> FindText(q, "starter"),
          tests |-> FindText(q, "tests"), solution |-> FindText(q, "solution")]
    ELSE IF qtype = Matching
    THEN [kind |-> "matching", pairs |-> Pairs(q)]
    ELSE IF qtype = Ordering
    THEN [kind |-> "ordering", items |-> Items(q)]
    ELSE [kind |-> "raw", raw |-> Serialize(q)]

\* for q in asmt.findall("./question"): the questions, when float() takes
\* the points of each
ParseQuestions(qs) ==
    [i \in DOMAIN qs |->
        TQuestion(AttrGet(qs[i].attrib, "type", Mcq),
                  ParseFloat(AttrGet(qs[i].attrib, "points", << "1" >>)),
                  QuestionData(qs[i], AttrGet(qs[i].attrib, "type", Mcq)))]

\* float(q.attrib.get("points", "1")) raises ValueError
QuestionFails(q) == ~ParseFloat(AttrGet(q.attrib, "points", << "1" >>)).ok

\* int(float(s)) of passScore
PassScore(s) ==
    IF ~ParseFloat(s).ok
    THEN Raised("ValueError", << "could not convert string to float" >>)
    ELSE IF ParseFloat(s).kind = "nan"
    THEN Raised("ValueError", << "cannot convert float NaN to integer" >>)
    ELSE IF ParseFloat(s).kind = "inf"
    THEN Raised("OverflowError", << "cannot convert float infinity to integer" >>)
    ELSE [ok |-> TRUE, value |-> ParseFloat(s).whole]

\* asmt.attrib.get("passScore", "0") or "0"
PassText(a) == OrElse(AttrGet(a.attrib, "passScore", << "0" >>), << "0" >>)

\* an exception while one assessment is read: of its passScore, or else of
\* the points of one of its questions
AssessmentFails(a) ==
    \/ ~PassScore(PassText(a)).ok
    \/ \E i \in DOMAIN FindAll(a, "question") :
           QuestionFails(FindAll(a, "question")[i])

AssessmentError(a) ==
    IF ~PassScore(PassText(a)).ok THEN PassScore(PassText(a))
    ELSE Raised("ValueError", << "could not convert string to float" >>)

\* for asmt in l.findall("./assessment"): the first exception
AssessmentsFail(as) == \E i \in DOMAIN as : AssessmentFails(as[i])

AssessmentsError(as) ==
    AssessmentError(as[CHOOSE i \in DOMAIN as :
                          /\ AssessmentFails(as[i])
                          /\ \A j \in 1..(i - 1) : ~AssessmentFails(as[j])])

\* for asmt in l.findall("./assessment"): the assessments, when nothing
\* is raised
ParseAssessments(as) ==
    [i \in DOMAIN as |->
        TAssessment(AttrGet(as[i].attrib, "id", <<>>),
                    AttrGet(as[i].attrib, "type", <<"q", "u", "i", "z">>),
                    PassScore(PassText(as[i])).value,
                    ParseQuestions(FindAll(as[i], "question")))]

\* the <assessment> children of a lesson element (the lesson elements of
\* most documents have none and carry their attributes only)
LessonAssessments(l) ==
    IF "children" \in DOMAIN l
    THEN SelectSeq(l.children, LAMBDA c : c.tag = "assessment") ELSE <<>>

\* for l in m.findall("./lesson"): the lessons of one module, or the error
\* of the first lesson that fails (the documents of this model have no
\* content and no activity elements)
RECURSIVE ParseLessons(_, _, _)
ParseLessons(els, i, mtitle) ==
    IF i > Len(els) THEN [ok |-> TRUE, lessons |-> <<>>]
    ELSE LET lid == AttrGet(els[i].attrib, "id", <<>>)
             ltitle == get_required_attr(els[i], "title", "lesson", lid)
         IN IF ~ltitle.ok
            THEN Raised("TMLParseError",
                        << "Error in lesson " >> \o OrElse(lid, << "(no id)" >>)
                        \o << " of module '" >> \o mtitle \o << "': " >>
                        \o ltitle.msg)
            ELSE IF AssessmentsFail(LessonAssessments(els[i]))
            THEN AssessmentsError(LessonAssessments(els[i]))
            ELSE LET rest == ParseLessons(els, i + 1, mtitle)
                 IN IF ~rest.ok THEN rest
                    ELSE [ok |-> TRUE,
                          lessons |->
                              << TLesson(lid, ltitle.value,
                                         AttrGet(els[i].attrib, "duration", <<>>),
                                         <<>>, <<>>,
                                         ParseAssessments(LessonAssessments(els[i])),
                                         mtitle) >>
                              \o rest.lessons]

\* for m in root.findall("./module"): the modules in document order, or the
\* error of the first element that fails
RECURSIVE ParseModules(_, _)
ParseModules(els, i) ==
    IF i > Len(els) THEN [ok |-> TRUE, modules |-> <<>>]
    ELSE LET mid == AttrGet(els[i].attrib, "id", <<>>)
             mtitle == get_required_attr(els[i], "title", "module", mid)
             order == OrElse(AttrGet(els[i].attrib, "order", << "0" >>), << "0" >>)
         IN IF ~mtitle.ok
            THEN Raised("TMLParseError",
                        << "Error in module " >> \o OrElse(mid, << "(no id)" >>)
                        \o << ": " >> \o mtitle.msg)
            ELSE IF ~IsIntText(order)
            THEN Raised("ValueError", << "invalid literal for int()" >>)
            ELSE LET ls == ParseLessons(els[i].lessons, 1, mtitle.value)
                 IN IF ~ls.ok THEN ls
                    ELSE LET rest == ParseModules(els, i + 1)
                         IN IF ~rest.ok THEN rest
                            ELSE [ok |-> TRUE,
                                  modules |->
                                      << TModule(mid, mtitle.value, IntOf(order),
                                                 ls.lessons) >>
                                      \o rest.modules]

\* InsertByOrder putting a module before the modules of equal order.
InsertByOrderBeforeEqual(sorted, m) ==
    LET before == SelectSeq(sorted, LAMBDA x : x.order < m.order)
        after == SelectSeq(sorted, LAMBDA x : x.order >= m.order)
    IN before \o << m >> \o after

\* One step of a stable sort: m goes after the modules of lower or equal
\* order.
InsertByOrder(sorted, m) ==
    LET before == SelectSeq(sorted, LAMBDA x : x.order <= m.order)
        after == SelectSeq(sorted, LAMBDA x : x.order > m.order)
    IN before \o << m >> \o after

\* modules.sort(key=lambda m: m.order): list.sort is stable
RECURSIVE SortByOrder(_)
SortByOrder(modules) ==
    IF modules = <<>> THEN <<>>
    ELSE InsertByOrder(SortByOrder(SubSeq(modules, 1, Len(modules) - 1)),
                       modules[Len(modules)])

\* parse_tml(path, validate): the course, or the exception raised
parse_tml(t) ==
    LET v == validate_tml_xsd(t)
    IN IF t.validate /\ ~v.valid
       THEN Raised("TMLParseError", << "XSD validation failed: " >> \o v.message)
       ELSE IF ~t.doc.wellformed
       THEN Raised("ParseError", << "not well-formed" >>)
       ELSE LET ms == ParseModules(t.doc.modules, 1)
            IN IF ~ms.ok THEN ms
               ELSE [ok |-> TRUE,
                     course |->
                         TCourse(AttrGet(t.doc.attrib, "id", PyNone),
                                 AttrGet(t.doc.attrib, "title", <<>>),
                                 AttrGet(t.doc.attrib, "level", <<>>),
                                 AttrGet(t.doc.attrib, "duration", <<>>),
                                 t.doc.objectives,
                                 SortByOrder(ms.modules))]

----------------------------------------------------------------------------
(* build as a state machine: parse_tml, then the steps of render_course *)

\* ParseTml going on to render_course after a failed parse.
ParseTmlThenRender ==
    /\ pc = "parse"
    /\ LET r == parse_tml(tml)
       IN IF r.ok
          THEN /\ course' = r.course
               /\ pc' = "start"
               /\ UNCHANGED <<err, exit_code>>
          ELSE /\ err' = [exc |-> r.exc, msg |-> r.msg]
               /\ exit_code' = 1
               /\ pc' = "start"
               /\ UNCHANGED course
    /\ UNCHANGED <<outdir, li, made, index_html, tml>>
    /\ UNCHANGED <<engineVars, lessonVars, textVars>>

\* course = parse_tml(tml_path, validate=validate); an exception is caught
\* by build, which prints it and calls sys.exit(1)
ParseTml ==
    /\ pc = "parse"
    /\ LET r == parse_tml(tml)
       IN IF r.ok
          THEN /\ course' = r.course
               /\ pc' = "start"
               /\ UNCHANGED <<err, exit_code>>
          ELSE /\ err' = [exc |-> r.exc, msg |-> r.msg]
               /\ exit_code' = 1
               /\ pc' = "exit"
               /\ UNCHANGED course
    /\ UNCHANGED <<outdir, li, made, index_html, tml>>
    /\ UNCHANGED <<engineVars, lessonVars, textVars>>

BuildNext == ParseTml \/ RenderIndex \/ WriteLesson

\* A template directory with a module card and a lesson item.
CardDir ==
    (ModuleCardHtml :> << Txt("<section><h2>"), Var("mod_title", 1, 1),
                          Txt("</h2>"), Var("lessons", 1, 1),
                          Txt("</section>") >>)
    @@ (LessonItemHtml :> << Txt("<a href="), Var("lesson_file", 1, 1),
                             Txt(">"), Var("lesson_title", 1, 1),
                             Txt("</a>") >>)

\* TemplateEngine(template_dir) on an existing directory holding fs
EngineOn(fs) ==
    /\ template_dir = "tpl"
    /\ dirExists = TRUE
    /\ files = fs
    /\ cache = <<>>
    /\ partial_cache = <<>>
    /\ last = NoCall
    /\ firstLoad = <<>>
    /\ calls = 0
    /\ fsOps = 0

\* build(tml_path, outdir, template_dir, validate) on one of the inputs ts
BuildStart(ts) ==
    /\ tml \in ts
    /\ err = NoError
    /\ exit_code = -1
    /\ course = TCourse(<<>>, <<>>, <<>>, <<>>, <<>>, <<>>)
    /\ pc = "parse"
    /\ li = 0
    /\ made = FALSE
    /\ index_html = <<>>
    /\ LessonIdle
    /\ TextIdle

\* <course id="c" title="T">
RootAttrib == << <<"id", <<"c">> >>, <<"title", <<"T">> >> >>

IntroLesson == [attrib |-> << <<"title", <<"I", "n", "t", "r", "o">> >> >>]

\* Attributes of the module elements: titles P, Q, R and the ways to write
\* an order (a number, a number of two digits, a negative one, the empty
\* string, none)
OrderAttribs ==
    { << <<"title", <<"P">> >>, <<"order", <<"2">> >> >>,
      << <<"title", <<"Q">> >>, <<"order", <<"2">> >> >>,
      << <<"title", <<"R">> >>, <<"order", <<"1", "0">> >> >>,
      << <<"id", <<"m">> >>, <<"title", <<"P">> >> >>,
      << <<"title", <<"Q">> >>, <<"order", <<>> >> >>,
      << <<"title", <<"R">> >>, <<"order", <<"-", "1">> >> >> }

\* Documents of up to MaxDocModules modules, each with no lesson or one.
OrderDocs ==
    { [wellformed |-> TRUE, attrib |-> RootAttrib, objectives |-> <<>>,
       modules |-> ms] :
        ms \in UNION { [1..n -> [attrib : OrderAttribs,
                                 lessons : { <<>>, << IntroLesson >> }]] :
                        n \in 0..MaxDocModules } }

OrderInit ==
    /\ EngineOn(CardDir)
    /\ BuildStart({ [doc |-> d, validate |-> FALSE, lxml |-> TRUE, xsd |-> TRUE,
                     verdict |-> "valid"] : d \in OrderDocs })
    /\ outdir = <<>>

SpecOrder == OrderInit /\ [][BuildNext]_vars

----------------------------------------------------------------------------
(* Vocabulary of the engine's properties *)

HasKind(content, kind) == \E i \in DOMAIN content : content[i].k = kind

HasVar(content, v) ==
    \E i \in DOMAIN content : content[i].k = "var" /\ content[i].name = <<v>>

IsRender == last.op \in {"render", "render_with_defaults"}

\* The text the call expanded: the inline string, or the loaded template.
Effective == IF last.op = "render_string" THEN last.tpl ELSE last.loads[1].text

\* name without a trailing '.html'
Stem(n) == IF EndsWithHtml(n) THEN SubSeq(n, 1, Len(n) - 1) ELSE n

\* partials/<stem>.html
StemPath(n) == <<"partials/">> \o Stem(n) \o <<".html">>

FileAt(path) == DirUsable(last.dir, last.ex) /\ path \in DOMAIN last.fs

\* Nothing to resolve a name to at the time of the call: not memoized, no
\* file, and no built-in default (or defaults switched off).
TemplateUnresolved(n) ==
    /\ n \notin DOMAIN last.cache0
    /\ ~FileAt(n)
    /\ ~last.ud \/ n \notin DefaultNames

PartialUnresolved(n) ==
    /\ n \notin DOMAIN last.pcache0
    /\ ~FileAt(StemPath(n))
    /\ ~last.ud \/ StemPath(n) \notin DefaultNames

\* A text with no nested expansion: each partial reference replaced by its
\* 'not found' comment, each variable by its value or canonical placeholder.
RECURSIVE FlatExpected(_, _)
FlatExpected(content, context) ==
    IF content = <<>> THEN <<>>
    ELSE LET t == Head(content)
             r == CASE t.k = "partial" -> << PartialNotFound(t.name) >>
                    [] t.k = "var" ->
                         IF t.name[1] \in DOMAIN context THEN context[t.name[1]]
                         ELSE << Var(t.name[1], 1, 1) >>
                    [] OTHER -> << t >>
         IN r \o FlatExpected(Tail(content), context)

----------------------------------------------------------------------------
(* C1 *)

\* C1: partial expansion in render/render_string terminates and returns a
\* string without raising, for any set of partials, cyclic ones included.
C1_ExpansionReturns == last.op # "none" => ~last.raised

----------------------------------------------------------------------------
(* C2 *)

\* C2: a missing template makes render return exactly the 'Template not
\* found' comment, and a missing partial is replaced in place by the 'Partial
\* not found' comment with the rest of the text rendered normally; neither
\* raises.
C2_MissingIsPlaceholder ==
    /\ (IsRender /\ TemplateUnresolved(last.name)) =>
          ~last.raised /\ last.out = << TemplateNotFound(last.name) >>
    /\ (last.op # "none" /\ Effective # <<>>
        /\ \A i \in DOMAIN Effective :
              Effective[i].k = "partial" => PartialUnresolved(Effective[i].name)) =>
          ~last.raised /\ last.out = FlatExpected(Effective, last.ctx)
    /\ (last.op # "none" /\ ~last.raised) =>
          \A i \in DOMAIN last.loads :
              (last.loads[i].kind = "partial" /\ last.loads[i].text = <<>>) =>
                  \E j \in DOMAIN last.out :
                      last.out[j] = PartialNotFound(last.loads[i].name)

C2_Witness ==
    /\ IsRender
    /\ ~TemplateUnresolved(last.name)
    /\ \E i \in DOMAIN Effective :
          Effective[i].k = "partial" /\ PartialUnresolved(Effective[i].name)
    /\ HasKind(Effective, "var")
    /\ HasKind(last.out, "partial_not_found")
    /\ HasKind(last.out, "text")

----------------------------------------------------------------------------
(* C3 *)

EmptyX == "x" \in DOMAIN last.ctx /\ last.ctx["x"] = <<>>

\* C3 (as claimed): on render_with_defaults a variable present in the context
\* with an empty-string value is treated as missing and its placeholder stays
\* in the output.
C3_EmptyValueKeepsPlaceholder ==
    (last.op = "render_with_defaults" /\ ~last.raised /\ EmptyX
     /\ HasVar(Effective, "x")) => HasVar(last.out, "x")

\* C3 (amended): render_with_defaults substitutes the empty string for a
\* variable present with an empty-string value, as render does, and returns
\* what render(name, context, use_defaults=True) returns from the same engine
\* state.
C3_EmptyValueSubstituted ==
    /\ (IsRender /\ ~last.raised /\ EmptyX) => ~HasVar(last.out, "x")
    /\ last.op = "render_with_defaults" =>
          LET r == RenderResult(last.name, last.ctx, TRUE, last.dir, last.ex,
                                last.fs, last.cache0, last.pcache0)
          IN last.raised = r.raised /\ last.out = r.out

C3_Witness ==
    /\ last.op = "render_with_defaults" /\ ~last.raised /\ EmptyX
    /\ HasVar(Effective, "x")
    /\ HasKind(last.out, "text")

----------------------------------------------------------------------------
(* C4 *)

\* C4: once a template or partial name has been loaded successfully on an
\* engine, every later load of that name returns the same text, whatever
\* happens to the files of the template directory in between.
C4_LoadsStable ==
    \A i \in DOMAIN last.loads :
        LET l == last.loads[i]
        IN <<l.kind, l.name>> \in DOMAIN firstLoad =>
              l.text = firstLoad[<<l.kind, l.name>>]

LoadPath(l) == IF l.kind = "template" THEN TemplatePath(l.name) ELSE StemPath(l.name)

\* a load answered from memory while the file it came from is gone or changed
C4_Witness ==
    \E i \in DOMAIN last.loads :
        LET l == last.loads[i]
        IN /\ l.hit
           /\ l.text # <<>>
           /\ ~FileAt(LoadPath(l)) \/ last.fs[LoadPath(l)] # l.text
           /\ last.dir # ""
           /\ l.text # get_default_template(LoadPath(l))

----------------------------------------------------------------------------
(* C5 *)

\* C5: a call with use_defaults=False whose template or partial has no file
\* yields the 'not found' comment for it and never built-in default content,
\* whatever calls with use_defaults=True came before on the same engine.
C5_DisabledDefaultsStayOff ==
    (last.op \in {"render", "render_string"} /\ ~last.ud) =>
        /\ \A i \in DOMAIN last.loads :
              LET l == last.loads[i]
              IN (~FileAt(LoadPath(l)) /\ LoadPath(l) \in DefaultNames) =>
                    l.text # get_default_template(LoadPath(l))
        /\ (last.op = "render" /\ ~FileAt(last.name) /\ last.name \in DefaultNames) =>
              last.out = << TemplateNotFound(last.name) >>

----------------------------------------------------------------------------
(* C6 *)

NoNotFound(content) ==
    ~HasKind(content, "template_not_found") /\ ~HasKind(content, "partial_not_found")

\* C6: with no template directory, render of every built-in default template
\* gives an output without any 'not found' placeholder.
C6_DefaultsSelfContained ==
    (last.dir = "" /\ IsRender /\ last.ud /\ last.name \in DefaultNames) =>
        ~last.raised /\ NoNotFound(last.out)

----------------------------------------------------------------------------
(* C7 *)

\* C7: a partial reference resolves to the file partials/<name>.html when the
\* template directory has it and otherwise to the built-in default under the
\* key partials/<name>.html, and the spellings name and name.html resolve
\* alike.  (A lookup is what a load does when the name is not memoized.)
C7_PartialLookupOrder ==
    \A i \in DOMAIN last.loads :
        LET l == last.loads[i]
        IN (l.kind = "partial" /\ ~l.hit) =>
              /\ FileAt(StemPath(l.name)) => l.text = last.fs[StemPath(l.name)]
              /\ (~FileAt(StemPath(l.name)) /\ last.ud) =>
                    l.text = get_default_template(StemPath(l.name))
              /\ \A j \in DOMAIN last.loads :
                    (last.loads[j].kind = "partial" /\ ~last.loads[j].hit
                     /\ Stem(last.loads[j].name) = Stem(l.name)) =>
                        last.loads[j].text = l.text

C7_Witness ==
    \E i, j \in DOMAIN last.loads :
        /\ last.loads[i].kind = "partial" /\ last.loads[j].kind = "partial"
        /\ ~last.loads[i].hit /\ ~last.loads[j].hit
        /\ ~EndsWithHtml(last.loads[i].name)
        /\ last.loads[j].name = last.loads[i].name \o <<".html">>
        /\ FileAt(StemPath(last.loads[i].name))
        /\ StemPath(last.loads[i].name) \in DefaultNames
        /\ last.loads[i].text # <<>>
        /\ last.loads[i].text # get_default_template(StemPath(last.loads[i].name))

----------------------------------------------------------------------------
(* C8 *)

TextOnly(content) ==
    content # <<>> /\ \A i \in DOMAIN content : content[i].k = "text"

\* What a partial name stands for when the call is made: its memoized text,
\* else its file, else (defaults on) its built-in default.
ResolvedText(n) ==
    IF n \in DOMAIN last.pcache0 THEN last.pcache0[n]
    ELSE IF FileAt(StemPath(n)) THEN last.fs[StemPath(n)]
    ELSE IF last.ud THEN get_default_template(StemPath(n))
    ELSE <<>>

IsOneRef(content) == Len(content) = 1 /\ content[1].k = "partial"

\* The text at the end of the acyclic chain of single references that starts
\* at partial n; <<>> when n starts no such chain.
RECURSIVE ChainEnd(_, _)
ChainEnd(n, seen) ==
    LET t == ResolvedText(n)
    IN IF TextOnly(t) THEN t
       ELSE IF IsOneRef(t) /\ t[1].name \notin (seen \cup {n})
       THEN ChainEnd(t[1].name, seen \cup {n})
       ELSE <<>>

IsChain ==
    /\ last.op = "render_string"
    /\ IsOneRef(last.tpl)
    /\ ChainEnd(last.tpl[1].name, {}) # <<>>

\* C8: rendering {{> a }} over an acyclic chain of resolvable partials that
\* ends in the text Z yields Z, with no partial reference left in the output.
C8_ChainResolves ==
    IsChain => /\ ~last.raised
               /\ last.out = ChainEnd(last.tpl[1].name, {})
               /\ ~HasKind(last.out, "partial")

C8_Witness ==
    /\ IsChain
    /\ IsOneRef(ResolvedText(last.tpl[1].name))
    /\ last.out = << Txt("Z") >>

----------------------------------------------------------------------------
(* C9 *)

SingleVar ==
    last.op = "render_string" /\ Len(last.tpl) = 1 /\ last.tpl[1].k = "var"

\* C9 (as claimed): with x not in the context, the output is the placeholder
\* text of the template, unchanged.
C9_PlaceholderUnchanged ==
    (SingleVar /\ last.tpl[1].name[1] \notin DOMAIN last.ctx) =>
        last.out = last.tpl

\* C9 (amended): a template whose body is one variable reference to x renders
\* to the context value when x is in the context; otherwise to the
\* placeholder in its canonical spelling '{{ x }}' (the template's own text
\* only if it is spelled that way), and rendering that output again with the
\* same context returns it unchanged.
C9_RoundTrip ==
    SingleVar =>
        LET x == last.tpl[1].name[1]
        IN /\ ~last.raised
           /\ x \in DOMAIN last.ctx => last.out = last.ctx[x]
           /\ x \notin DOMAIN last.ctx =>
                 /\ last.out = << Var(x, 1, 1) >>
                 /\ LET again == RenderStringResult(last.out, last.ctx, last.ud,
                                     template_dir, dirExists, files, cache,
                                     partial_cache)
                    IN ~again.raised /\ again.out = last.out

C9_Witness ==
    /\ SingleVar
    /\ last.tpl[1].name[1] \notin DOMAIN last.ctx
    /\ last.tpl[1].pre = 0
    /\ last.out = << Var("x", 1, 1) >>

----------------------------------------------------------------------------
(* C10 *)

LessonFiles == DOMAIN outdir \ {IndexFile}

Slugs == { safe_filename(AllLessons(course)[i].title) : i \in DOMAIN AllLessons(course) }

\* C10 (as claimed): after render_course the number of files of the output
\* directory other than index.html equals the total number of lessons.
C10_OneFilePerLesson ==
    pc = "done" => Cardinality(LessonFiles) = total_lessons(course)

\* C10 (amended): after render_course into an empty output directory, the
\* number of files other than index.html equals the number of distinct slugs
\* of the lesson titles other than "index"; it equals the total number of
\* lessons when the slugs are pairwise distinct and none is "index", and is
\* smaller otherwise.
C10_OneFilePerSlug ==
    pc = "done" =>
        /\ Cardinality(LessonFiles)
              = Cardinality(Slugs \ {<<"i", "n", "d", "e", "x">>})
        /\ Cardinality(LessonFiles) <= total_lessons(course)
        /\ (Cardinality(LessonFiles) = total_lessons(course)) <=>
              /\ \A i, j \in DOMAIN AllLessons(course) :
                    i # j => safe_filename(AllLessons(course)[i].title)
                                # safe_filename(AllLessons(course)[j].title)
              /\ <<"i", "n", "d", "e", "x">> \notin Slugs

C10_Witness ==
    /\ pc = "done"
    /\ \E i, j \in DOMAIN AllLessons(course) :
          /\ i # j
          /\ AllLessons(course)[i].title # AllLessons(course)[j].title
          /\ LessonFile(AllLessons(course)[i]) = LessonFile(AllLessons(course)[j])
    /\ Cardinality(LessonFiles) < total_lessons(course)
    /\ Len(course.modules) = 2

----------------------------------------------------------------------------
(* C11 *)

SameSlug(i, j) ==
    safe_filename(AllLessons(course)[i].title)
        = safe_filename(AllLessons(course)[j].title)

\* The files of the output directory that hold the page of lesson i.
FilesOfLesson(i) ==
    { f \in DOMAIN outdir : outdir[f].page = "lesson" /\ outdir[f].lesson = i }

\* C11 (as claimed): after render_course, two lessons whose titles have the
\* same slug have two distinct output files when their ids differ, and share
\* one file only when their ids are equal or absent.
C11_DistinctIdsDistinctFiles ==
    pc = "done" =>
        \A i, j \in DOMAIN AllLessons(course) :
            (i < j /\ SameSlug(i, j)) =>
                /\ ( /\ AllLessons(course)[i].id # <<>>
                      /\ AllLessons(course)[j].id # <<>>
                      /\ AllLessons(course)[i].id # AllLessons(course)[j].id )
                      => /\ FilesOfLesson(i) # {}
                         /\ FilesOfLesson(j) # {}
                         /\ FilesOfLesson(i) \cap FilesOfLesson(j) = {}
                /\ FilesOfLesson(i) = {}
                      => \/ AllLessons(course)[i].id = AllLessons(course)[j].id
                         \/ AllLessons(course)[i].id = <<>>
                         \/ AllLessons(course)[j].id = <<>>

\* C11 (amended): after render_course, two lessons whose titles have the same
\* slug share one output file whatever their ids: the earlier lesson's page
\* is gone, and the file named by the slug holds the page of the last lesson
\* with that slug.
C11_SameSlugOneFile ==
    pc = "done" =>
        \A i, j \in DOMAIN AllLessons(course) :
            (i < j /\ SameSlug(i, j)) =>
                /\ FilesOfLesson(i) = {}
                /\ LessonFile(AllLessons(course)[j]) \in DOMAIN outdir
                /\ outdir[LessonFile(AllLessons(course)[j])].page = "lesson"
                /\ outdir[LessonFile(AllLessons(course)[j])].lesson >= j
                /\ SameSlug(j, outdir[LessonFile(AllLessons(course)[j])].lesson)
                /\ \A k \in DOMAIN AllLessons(course) :
                      SameSlug(j, k) =>
                          k <= outdir[LessonFile(AllLessons(course)[j])].lesson

C11_Witness ==
    /\ pc = "done"
    /\ Len(AllLessons(course)) = 2
    /\ AllLessons(course)[1].title = <<"I", "n", "t", "r", "o">>
    /\ AllLessons(course)[2].title = <<"I", "n", "t", "r", "o">>
    /\ AllLessons(course)[1].id = <<"a">>
    /\ AllLessons(course)[2].id = <<"b">>
    /\ DOMAIN outdir = {IndexFile, <<"i", "n", "t", "r", "o", ".html">>}
    /\ outdir[<<"i", "n", "t", "r", "o", ".html">>].lesson = 2

----------------------------------------------------------------------------
(* C12 *)

\* The number an order attribute denotes (0 when absent or empty).
OrderValue(attrib) ==
    LET o == AttrGet(attrib, "order", <<>>)
    IN CASE o = <<"2">> -> 2
         [] o = <<"1", "0">> -> 10
         [] o = <<"-", "1">> -> 0 - 1
         [] OTHER -> 0

\* p maps the positions of the course's modules to the positions of the
\* document's module elements they were parsed from.
IsOrigin(p, ms, els) ==
    /\ \A i, j \in DOMAIN p : i # j => p[i] # p[j]
    /\ \A i \in DOMAIN p :
          /\ ms[i].title = AttrGet(els[p[i]].attrib, "title", <<>>)
          /\ ms[i].id = AttrGet(els[p[i]].attrib, "id", <<>>)
          /\ ms[i].order = OrderValue(els[p[i]].attrib)
          /\ Len(ms[i].lessons) = Len(els[p[i]].lessons)

\* The module titles of the index page, in page order.
CardTitles ==
    SelectSeq(index_html,
              LAMBDA t : t.k = "text" /\ t.name[1] \in {"P", "Q", "R"})

\* C12: after a successful parse the modules of the Course are the modules
\* of the document in ascending order, modules of equal order (including
\* both defaulted to 0) in document order, and the module cards of the index
\* page follow the same sequence.
C12_ModulesSortedStable ==
    pc \in {"start", "lessons", "done"} =>
        /\ Len(course.modules) = Len(tml.doc.modules)
        /\ \A i, j \in DOMAIN course.modules :
              i < j => course.modules[i].order <= course.modules[j].order
        /\ \E p \in [DOMAIN course.modules -> DOMAIN tml.doc.modules] :
              /\ IsOrigin(p, course.modules, tml.doc.modules)
              /\ \A i, j \in DOMAIN p :
                    (i < j /\ course.modules[i].order = course.modules[j].order)
                        => p[i] < p[j]
        /\ pc # "start" =>
              CardTitles = [i \in DOMAIN course.modules |->
                                Txt(course.modules[i].title[1])]

C12_Witness ==
    /\ pc = "done"
    /\ Len(tml.doc.modules) = 3
    /\ AttrGet(tml.doc.modules[1].attrib, "order", <<>>) = <<"1", "0">>
    /\ AttrGet(tml.doc.modules[2].attrib, "title", <<>>) = <<"Q">>
    /\ AttrGet(tml.doc.modules[2].attrib, "order", <<>>) = <<"2">>
    /\ AttrGet(tml.doc.modules[3].attrib, "title", <<>>) = <<"P">>
    /\ AttrGet(tml.doc.modules[3].attrib, "order", <<>>) = <<"2">>
    /\ CardTitles = << Txt("Q"), Txt("P"), Txt("R") >>

-----------------------------------------------------------------------------
(* The slides of one lesson *)
(* The text render_course builds itself is written as chunks; the values it *)
(* takes from the course are sequences of characters.  The lessons rendered *)
(* here hold no braces in their texts, so that str.replace in the          *)
(* numbering pass meets only the placeholders a template left.             *)

TContent(fmt, lang, value) == [format |-> fmt, lang |-> lang, value |-> value]

TActivity(aid, atype, est, instructions, expected) ==
    [id |-> aid, type |-> atype, est |-> est, instructions |-> instructions,
     expected |-> expected]

\* str.upper() on one character, on the letters Lower knows
Upper(c) ==
    CASE c = "a" -> "A"
      [] c = "b" -> "B"
      [] c = "i" -> "I"
      [] OTHER -> c

\* str.title(): a letter is upper case after a non-letter, lower case after a
\* letter
TitleStr(s) ==
    [i \in DOMAIN s |->
        IF i > 1 /\ s[i - 1] \in LowerChars \cup UpperChars
        THEN Lower(s[i]) ELSE Upper(s[i])]

SlideHtml == <<"partials/", "slide", ".html">>
ContentSlideHtml == <<"partials/", "content_slide", ".html">>
AssessmentSlideHtml == <<"partials/", "assessment_slide", ".html">>
ActivityExampleHtml == <<"partials/", "activity_example", ".html">>
ActivityReadingHtml == <<"partials/", "activity_reading", ".html">>

\* f'partials/activity_{a.type.lower()}.html'
ActivityTemplate(a) == <<"partials/", "activity_">> \o LowerStr(a.type) \o <<".html">>

\* l.id or safe_filename(l.title)
LessonKey(l) == OrElse(l.id, safe_filename(l.title))

\* a.id or f"act-{len(slides)}"
ActivityId(a, nslides) == OrElse(a.id, <<"a", "c", "t", "-">> \o IntStr(nslides))

\* content_html of one content block
ContentHtml(c) ==
    IF c.format = "html" THEN escape_html(c.value)
    ELSE IF c.format = "markdown" THEN safe_markdown(c.value).out
    ELSE << "<pre>" >> \o escape_html(c.value) \o << "</pre>" >>

\* the engine's render_with_defaults for the slide around a content
SlideOf(slide_type, slide_id, slide_content, slide_number, total) ==
    EngineOut(SlideHtml,
        ("slide_type" :> << Txt(slide_type) >>)
        @@ ("slide_id" :> Str(slide_id))
        @@ ("slide_content" :> slide_content)
        @@ ("slide_number" :> Str(IntStr(slide_number)))
        @@ ("total_slides" :> Str(IntStr(total))))

\* one round of the content loop: slide_html
ContentSlideOf(l, idx, num) ==
    SlideOf("content", <<"content-">> \o LessonKey(l) \o <<"-">> \o IntStr(idx),
            EngineOut(ContentSlideHtml,
                      ("content_html" :> Str(ContentHtml(l.content[idx + 1])))),
            num, 1)

\* an exception in that round: the IndexError of safe_markdown, or one of
\* the engine
ContentSlideRaises(l, idx) ==
    \/ l.content[idx + 1].format = "markdown"
       /\ safe_markdown(l.content[idx + 1].value).raised
    \/ EngineRaises(ContentSlideHtml)
    \/ EngineRaises(SlideHtml)

EstHtml(a) ==
    IF a.est # <<>>
    THEN << Txt("<p class=small>Estimated time: ") >> \o Str(a.est)
         \o << Txt("</p>") >>
    ELSE <<>>

\* the block around safe_markdown(text) under a heading; the attributes of
\* its elements are left out
ExpectedBlock(heading, text) ==
    << Txt("<div class=activity-expected><h3>"), Txt(heading),
       Txt("</h3><div class=expected-content>") >>
    \o Str(safe_markdown(text).out) \o << Txt("</div></div>") >>

Javascript == <<"j", "a", "v", "a", "s", "c", "r", "i", "p", "t">>
Reading == <<"r", "e", "a", "d", "i", "n", "g">>
KeyTakeaways == <<"K", "e", "y", " ", "T", "a", "k", "e", "a", "w", "a", "y", "s">>
Takeaway == <<"t", "a", "k", "e", "a", "w", "a", "y">>

\* a.type.lower() == "reading" and a.expected and "```javascript" in a.expected
IsExample(a) ==
    /\ LowerStr(a.type) = Reading
    /\ a.expected # <<>>
    /\ FindFrom(a.expected, 1, Fence \o Javascript) > 0

\* where the javascript block of the pattern starts and where its closing
\* fence starts (non-greedy, DOTALL); 0 when re.search finds nothing
CodeOpen == Fence \o Javascript \o << "\n" >>

CodeStart(expected) == FindFrom(expected, 1, CodeOpen)

CodeClose(expected) ==
    IF CodeStart(expected) = 0 THEN 0
    ELSE FindFrom(expected, CodeStart(expected) + Len(CodeOpen), Fence)

\* code_match of an activity that is an example
HasCodeMatch(a) == IsExample(a) /\ CodeClose(a.expected) > 0

\* expected[:code_match.start()].strip()
BeforeCode(expected) ==
    StripChars(SubSeq(expected, 1, CodeStart(expected) - 1), SpaceChars)

\* code_match.group(1).strip()
InitialCode(expected) ==
    StripChars(SubSeq(expected, CodeStart(expected) + Len(CodeOpen),
                      CodeClose(expected) - 1), SpaceChars)

\* expected[code_match.end():].strip()
AfterCode(expected) ==
    StripChars(SubSeq(expected, CodeClose(expected) + Len(Fence), Len(expected)),
               SpaceChars)

\* after_code and ("Key Takeaways" in after_code
\*                 or "takeaway" in after_code.lower())
HasTakeaways(after_code) ==
    /\ after_code # <<>>
    /\ \/ FindFrom(after_code, 1, KeyTakeaways) > 0
       \/ FindFrom(LowerStr(after_code), 1, Takeaway) > 0

\* the part of the context every activity template gets
ActivityBase(a, nslides) ==
    ("activity_id" :> Str(ActivityId(a, nslides)))
    @@ ("instructions" :> Str(escape_html(a.instructions)))
    @@ ("est_html" :> EstHtml(a))

\* activity_content of a worked example
ExampleContent(a, nslides) ==
    EngineOut(ActivityExampleHtml,
        ActivityBase(a, nslides)
        @@ ("example_explanation" :>
               IF BeforeCode(a.expected) # <<>>
               THEN ExpectedBlock("Example", BeforeCode(a.expected)) ELSE <<>>)
        @@ ("initial_code" :> Str(escape_html(InitialCode(a.expected))))
        @@ ("key_takeaways" :>
               IF HasTakeaways(AfterCode(a.expected))
               THEN ExpectedBlock("Key Takeaways", AfterCode(a.expected))
               ELSE <<>>))

\* activity_content of one activity
ActivityContent(a, nslides) ==
    IF HasCodeMatch(a) THEN ExampleContent(a, nslides)
    ELSE IF IsExample(a)
    THEN EngineOut(ActivityReadingHtml,
             ActivityBase(a, nslides)
             @@ ("expected_html" :> ExpectedBlock("Expected Output", a.expected)))
    ELSE EngineOut(ActivityTemplate(a),
             ActivityBase(a, nslides)
             @@ ("activity_type" :> Str(TitleStr(a.type)))
             @@ ("expected_html" :>
                    IF a.expected # <<>>
                    THEN ExpectedBlock("Expected Output", a.expected) ELSE <<>>))

\* one round of the activity loop: slide_html
ActivitySlideOf(a, nslides, num) ==
    SlideOf("activity", <<"activity-">> \o ActivityId(a, nslides),
            ActivityContent(a, nslides), num, 1)

\* an exception in that round
ActivitySlideRaises(a) ==
    \/ IF HasCodeMatch(a)
       THEN \/ safe_markdown(BeforeCode(a.expected)).raised
            \/ HasTakeaways(AfterCode(a.expected))
               /\ safe_markdown(AfterCode(a.expected)).raised
            \/ EngineRaises(ActivityExampleHtml)
       ELSE \/ safe_markdown(a.expected).raised
            \/ EngineRaises(IF IsExample(a) THEN ActivityReadingHtml
                            ELSE ActivityTemplate(a))
    \/ EngineRaises(SlideHtml)

(* The questions of an assessment *)

QuestionHtml == <<"partials/", "question", ".html">>

\* str(int(q.points)) if q.points == int(q.points) else str(q.points)
PointsStr(p) ==
    IF p.frac = <<>> THEN IntStr(p.whole)
    ELSE IntStr(p.whole) \o << "." >> \o p.frac

\* int(q.points) raises ValueError on nan and OverflowError on inf
PointsRaises(p) == p.kind \in {"nan", "inf"}

\* type_labels.get(q.type, q.type.upper())
TypeLabel(qtype) ==
    CASE qtype = Mcq -> << Txt("Multiple Choice") >>
      [] qtype = Msq -> << Txt("Multiple Select") >>
      [] qtype = Truefalse -> << Txt("True/False") >>
      [] qtype = Short -> << Txt("Short Answer") >>
      [] qtype = Long -> << Txt("Long Answer") >>
      [] qtype = Code -> << Txt("Code") >>
      [] qtype = Matching -> << Txt("Matching") >>
      [] qtype = Ordering -> << Txt("Ordering") >>
      [] OTHER -> Str([i \in DOMAIN qtype |-> Upper(qtype[i])])

\* f"{asmt.id}__q{idx}"
QuestionName(asmt, idx) == asmt.id \o <<"_", "_", "q">> \o IntStr(idx)

\* the text of page chunks joined by a separator
RECURSIVE JoinHtml(_, _)
JoinHtml(parts, sep) ==
    IF parts = <<>> THEN <<>>
    ELSE IF Len(parts) = 1 THEN parts[1]
    ELSE parts[1] \o sep \o JoinHtml(Tail(parts), sep)

\* choices_html of an mcq or msq question: one label per choice, its value
\* the truth of the choice
ChoicesHtml(asmt, idx, q) ==
    JoinHtml([j \in DOMAIN q.data.choices |->
                << Txt("<label data-option-number=") >> \o Str(IntStr(j))
                \o << Txt("><input type="),
                      Txt(IF q.type = Mcq THEN "radio" ELSE "checkbox"),
                      Txt(" name=") >>
                \o Str(QuestionName(asmt, idx))
                \o << Txt(" value="),
                      Txt(IF q.data.choices[j].correct THEN "true" ELSE "false"),
                      Txt("> <span>") >>
                \o Str(escape_html(q.data.choices[j].text))
                \o << Txt("</span></label>") >>],
             << Txt("\n") >>)

\* choices_html of a truefalse question
TruefalseChoicesHtml(asmt, idx) ==
    << Txt("<label data-option-number=1><input type=radio name=") >>
    \o Str(QuestionName(asmt, idx))
    \o << Txt(" value=true> <span>True</span></label>\n"),
          Txt("<label data-option-number=2><input type=radio name=") >>
    \o Str(QuestionName(asmt, idx))
    \o << Txt(" value=false> <span>False</span></label>") >>

\* the context of partials/question.html
QuestionContext(qtype, idx, q, stem, choices) ==
    ("q_type" :> Str(qtype))
    @@ ("q_index" :> Str(IntStr(idx)))
    @@ ("q_points" :> Str(PointsStr(q.points)))
    @@ ("q_type_label" :> TypeLabel(q.type))
    @@ ("stem" :> Str(escape_html(stem)))
    @@ ("choices" :> choices)

\* question_html.replace('data-type="truefalse"',
\*                       'data-type="truefalse" data-answer="{ans}"')
RECURSIVE AddDataAnswer(_, _)
AddDataAnswer(html, ans) ==
    LET pat == << Txt(" data-type=") >> \o Str(Truefalse)
    IN IF html = <<>> THEN <<>>
       ELSE IF StartsWith(html, pat)
       THEN pat \o << Txt(" data-answer=") >> \o Str(ans)
            \o AddDataAnswer(SubSeq(html, Len(pat) + 1, Len(html)), ans)
       ELSE << Head(html) >> \o AddDataAnswer(Tail(html), ans)

\* the meta block of the questions render_course writes itself
QuestionMeta(q) ==
    << Txt("<span class=question-type-label>") >> \o TypeLabel(q.type)
    \o << Txt("</span><span class=question-points-label>") >>
    \o Str(PointsStr(q.points)) \o << Txt(" pts</span>") >>

\* solution_attr
SolutionAttr(solution) ==
    IF solution # <<>>
    THEN << Txt(" data-solution=") >> \o Str(escape_html(solution)) ELSE <<>>

\* a short or long question
TextQuestionHtml(asmt, idx, q) ==
    << Txt("<div class=q"), Txt(" data-type=") >> \o Str(q.type)
    \o << Txt(" data-question-id=") >> \o Str(QuestionName(asmt, idx))
    \o << Txt(" data-points=") >> \o Str(PointsStr(q.points))
    \o SolutionAttr(q.data.solution) \o << Txt(">") >>
    \o QuestionMeta(q)
    \o << Txt("<div class=stem>") >> \o Str(escape_html(q.data.prompt))
    \o << Txt("</div><textarea class=text-answer rows="),
          Txt(IF q.type = Short THEN "4" ELSE "8"),
          Txt("></textarea><div class=solution-content>") >>
    \o Str(escape_html(q.data.solution)) \o << Txt("</div></div>") >>

\* a code question
CodeQuestionHtml(asmt, idx, q) ==
    << Txt("<div class=q"), Txt(" q-code"), Txt(" data-type=") >> \o Str(Code)
    \o << Txt(" data-question-id=") >> \o Str(QuestionName(asmt, idx))
    \o << Txt(" data-lang=") >> \o Str(escape_html(q.data.lang))
    \o << Txt(" data-points=") >> \o Str(PointsStr(q.points))
    \o SolutionAttr(q.data.solution) \o << Txt(">") >>
    \o QuestionMeta(q)
    \o << Txt("<div class=stem>") >> \o Str(escape_html(q.data.prompt))
    \o << Txt("</div><textarea class=code-editor rows=10>") >>
    \o Str(escape_html(q.data.starter))
    \o << Txt("</textarea><pre><code class=language-") >>
    \o Str(escape_html(q.data.lang)) \o << Txt(">") >>
    \o Str(escape_html(q.data.solution)) \o << Txt("</code></pre></div>") >>

\* the options of one dropdown: -- Select --, then shuffled_rights
OptionsHtml(shuffled_rights) ==
    << Txt("<option value=>-- Select --</option>") >>
    \o JoinHtml([k \in DOMAIN shuffled_rights |->
                    << Txt("<option value=") >>
                    \o Str(escape_html(shuffled_rights[k])) \o << Txt(">") >>
                    \o Str(escape_html(shuffled_rights[k]))
                    \o << Txt("</option>") >>],
                <<>>)

\* MatchingQuestionHtml with all_right_items shuffled again for every pair:
\* the dropdown of pair i lists them rotated by i places.
MatchingQuestionHtmlPerPair(asmt, idx, q, perm) ==
    LET pairs == q.data.pairs
        n == Len(pairs)
    IN << Txt("<div class=q"), Txt(" q-matching"), Txt(" data-type=") >>
       \o Str(Matching)
       \o << Txt(" data-question-id=") >> \o Str(QuestionName(asmt, idx))
       \o << Txt(" data-points=") >> \o Str(PointsStr(q.points)) \o << Txt(">") >>
       \o << Txt("<span class=question-number-badge>") >> \o Str(IntStr(idx))
       \o << Txt("</span>") >> \o QuestionMeta(q)
       \o << Txt("<div class=matching-pairs>") >>
       \o JoinHtml([i \in DOMAIN pairs |->
                       << Txt("<div class=matching-left>") >>
                       \o Str(escape_html(pairs[i].left))
                       \o << Txt("</div><select name=") >>
                       \o Str(QuestionName(asmt, idx))
                       \o << Txt("__pair") >> \o Str(IntStr(i - 1))
                       \o << Txt(" data-correct=") >>
                       \o Str(escape_html(pairs[i].right)) \o << Txt(">") >>
                       \o OptionsHtml([k \in 1..n |->
                              pairs[perm[((k + i - 1) % n) + 1]].right])
                       \o << Txt("</select>") >>],
                   <<>>)
       \o << Txt("</div></div>") >>

\* a matching question; perm is the order random.shuffle left the right-hand
\* values in: shuffled_rights[k] = all_right_items[perm[k]]
MatchingQuestionHtml(asmt, idx, q, perm) ==
    LET pairs == q.data.pairs
    IN << Txt("<div class=q"), Txt(" q-matching"), Txt(" data-type=") >>
       \o Str(Matching)
       \o << Txt(" data-question-id=") >> \o Str(QuestionName(asmt, idx))
       \o << Txt(" data-points=") >> \o Str(PointsStr(q.points)) \o << Txt(">") >>
       \o << Txt("<span class=question-number-badge>") >> \o Str(IntStr(idx))
       \o << Txt("</span>") >> \o QuestionMeta(q)
       \o << Txt("<div class=matching-pairs>") >>
       \o JoinHtml([i \in DOMAIN pairs |->
                       << Txt("<div class=matching-left>") >>
                       \o Str(escape_html(pairs[i].left))
                       \o << Txt("</div><select name=") >>
                       \o Str(QuestionName(asmt, idx))
                       \o << Txt("__pair") >> \o Str(IntStr(i - 1))
                       \o << Txt(" data-correct=") >>
                       \o Str(escape_html(pairs[i].right)) \o << Txt(">") >>
                       \o OptionsHtml([k \in DOMAIN perm |-> pairs[perm[k]].right])
                       \o << Txt("</select>") >>],
                   <<>>)
       \o << Txt("</div></div>") >>

\* an ordering question
OrderingQuestionHtml(asmt, idx, q) ==
    LET items == q.data.items
    IN << Txt("<div class=q"), Txt(" q-ordering"), Txt(" data-type=") >>
       \o Str(Ordering)
       \o << Txt(" data-question-id=") >> \o Str(QuestionName(asmt, idx))
       \o << Txt(" data-points=") >> \o Str(PointsStr(q.points)) \o << Txt(">") >>
       \o << Txt("<span class=question-number-badge>") >> \o Str(IntStr(idx))
       \o << Txt("</span>") >> \o QuestionMeta(q)
       \o << Txt("<div class=ordering-items>") >>
       \o JoinHtml([i \in DOMAIN items |->
                       << Txt("<input type=number name=") >>
                       \o Str(QuestionName(asmt, idx))
                       \o << Txt("__item") >> \o Str(IntStr(i - 1))
                       \o << Txt(" max=") >> \o Str(IntStr(Len(items)))
                       \o << Txt(" data-correct=") >> \o Str(IntStr(i))
                       \o << Txt("><span class=ordering-text>") >>
                       \o Str(escape_html(items[i])) \o << Txt("</span>") >>],
                   <<>>)
       \o << Txt("</div></div>") >>

\* the block of a question of an unknown type
UnsupportedHtml(q) ==
    << Txt("<div class=q"), Txt(" data-type=") >> \o Str(q.type)
    \o << Txt("><div>Unsupported question type: ") >> \o Str(q.type)
    \o << Txt("</div></div>") >>

\* the dispatch on q.type with questions of an unknown type skipped
OneQuestionHtmlSkipUnknown(asmt, idx, q, perm) ==
    IF q.type \in {Mcq, Msq}
    THEN EngineOut(QuestionHtml,
                   QuestionContext(q.type, idx, q, q.data.stem,
                                   ChoicesHtml(asmt, idx, q)))
    ELSE IF q.type = Truefalse
    THEN AddDataAnswer(
             EngineOut(QuestionHtml,
                       QuestionContext(Truefalse, idx, q, q.data.statement,
                                       TruefalseChoicesHtml(asmt, idx))),
             q.data.answer)
    ELSE IF q.type \in {Short, Long} THEN TextQuestionHtml(asmt, idx, q)
    ELSE IF q.type = Code THEN CodeQuestionHtml(asmt, idx, q)
    ELSE IF q.type = Matching THEN MatchingQuestionHtml(asmt, idx, q, perm)
    ELSE IF q.type = Ordering THEN OrderingQuestionHtml(asmt, idx, q)
    ELSE <<>>

\* one round of 'for idx, q in enumerate(asmt.questions, start=1)': the
\* text appended to q_html
OneQuestionHtml(asmt, idx, q, perm) ==
    IF q.type \in {Mcq, Msq}
    THEN EngineOut(QuestionHtml,
                   QuestionContext(q.type, idx, q, q.data.stem,
                                   ChoicesHtml(asmt, idx, q)))
    ELSE IF q.type = Truefalse
    THEN AddDataAnswer(
             EngineOut(QuestionHtml,
                       QuestionContext(Truefalse, idx, q, q.data.statement,
                                       TruefalseChoicesHtml(asmt, idx))),
             q.data.answer)
    ELSE IF q.type \in {Short, Long} THEN TextQuestionHtml(asmt, idx, q)
    ELSE IF q.type = Code THEN CodeQuestionHtml(asmt, idx, q)
    ELSE IF q.type = Matching THEN MatchingQuestionHtml(asmt, idx, q, perm)
    ELSE IF q.type = Ordering THEN OrderingQuestionHtml(asmt, idx, q)
    ELSE UnsupportedHtml(q)

\* ''.join(q_html); shuffles[idx] is the order random.shuffle gives the
\* right-hand values of question idx
QuestionsHtml(asmt, shuffles) ==
    JoinHtml([idx \in DOMAIN asmt.questions |->
                 OneQuestionHtml(asmt, idx, asmt.questions[idx], shuffles[idx])],
             <<>>)

\* an exception in the question loop: int() of the points, or the engine on
\* partials/question.html
QuestionsRaise(asmt) ==
    \E idx \in DOMAIN asmt.questions :
        \/ PointsRaises(asmt.questions[idx].points)
        \/ asmt.questions[idx].type \in {Mcq, Msq, Truefalse}
           /\ EngineRaises(QuestionHtml)

\* the orders random.shuffle can leave a list of n items in
Perms(n) == { p \in [1..n -> 1..n] : \A i, j \in 1..n : p[i] = p[j] => i = j }

\* one order per question: of its right-hand values for a matching
\* question, of nothing for the others
RECURSIVE ShufflesFrom(_, _)
ShufflesFrom(qs, i) ==
    IF i > Len(qs) THEN { <<>> }
    ELSE { << p >> \o rest :
             p \in Perms(IF qs[i].type = Matching THEN Len(qs[i].data.pairs)
                         ELSE 0),
             rest \in ShufflesFrom(qs, i + 1) }

Shuffles(asmt) == ShufflesFrom(asmt.questions, 1)

\* one round of the assessment loop: slide_html
AssessmentSlideOf(c, asmt, num, shuffles) ==
    SlideOf("assessment", <<"assessment-">> \o asmt.id,
            EngineOut(AssessmentSlideHtml,
                ("assess_id" :> Str(asmt.id))
                @@ ("course_id" :> CtxStr(c.id))
                @@ ("pass_score" :> Str(IntStr(asmt.passScore)))
                @@ ("questions" :> QuestionsHtml(asmt, shuffles))),
            num, 1)

AssessmentSlideRaises(asmt) ==
    \/ QuestionsRaise(asmt)
    \/ EngineRaises(AssessmentSlideHtml)
    \/ EngineRaises(SlideHtml)

\* completion_content; the attributes of its elements are left out
CompletionContent(c, l) ==
    << Txt("<div class=card><h2>Lesson Complete!</h2>"),
       Txt("<button onclick=markLessonComplete('") >>
    \o Str(FStr(c.id)) \o << Txt("','") >> \o Str(LessonKey(l))
    \o << Txt("')>Mark Lesson Complete</button></div>") >>

\* the completion slide, rendered with total_slides = slide_num
CompletionSlideOf(c, l, num) ==
    SlideOf("completion", <<"completion-">> \o LessonKey(l),
            CompletionContent(c, l), num, num)

\* Which loop of the lesson body runs once n slides are made
SlideKindAt(l, n) ==
    IF n < Len(l.content) THEN "content"
    ELSE IF n < Len(l.content) + Len(l.activities) THEN "activity"
    ELSE IF n < Len(l.content) + Len(l.activities) + Len(l.assessments)
    THEN "assessment"
    ELSE "completion"

\* str.replace('{{ name }}', value) on a slide: the placeholder a template
\* left with one space on each side of the name.  The replacement works
\* chunk by chunk, so the two halves of the slide are replaced apart.
RECURSIVE ReplaceLeft(_, _, _)
ReplaceLeft(slide, name, value) ==
    IF slide = <<>> THEN <<>>
    ELSE IF Len(slide) = 1
    THEN (IF slide[1] = Var(name, 1, 1) THEN Str(value) ELSE slide)
    ELSE ReplaceLeft(SubSeq(slide, 1, Len(slide) \div 2), name, value)
         \o ReplaceLeft(SubSeq(slide, Len(slide) \div 2 + 1, Len(slide)),
                        name, value)

IsDigitTok(tok) == tok.k = "text" /\ tok.name[1] \in DecimalDigits

\* the end of the run of digits that starts at i
RECURSIVE DigitRunEnd(_, _)
DigitRunEnd(slide, i) ==
    IF i < Len(slide) /\ IsDigitTok(slide[i + 1]) THEN DigitRunEnd(slide, i + 1)
    ELSE i

\* " / 1" of the counter pattern
CounterTail == << Txt(" "), Txt("/"), Txt(" "), Txt("1") >>

\* the positions from i on where a run of digits followed by " / 1" starts
CounterStarts(slide, i) ==
    { j \in i..Len(slide) :
        IsDigitTok(slide[j]) /\ At(slide, DigitRunEnd(slide, j) + 1, CounterTail) }

Least(S) == CHOOSE j \in S : \A k \in S : j <= k

\* re.sub of a run of digits followed by " / 1", rewritten to the run, " / "
\* and the total; the scan goes on after the match and the replacement is
\* not rescanned
RECURSIVE SubCounter(_, _, _)
SubCounter(slide, i, total) ==
    IF CounterStarts(slide, i) = {} THEN SubSeq(slide, i, Len(slide))
    ELSE LET m == Least(CounterStarts(slide, i))
             e == DigitRunEnd(slide, m)
         IN SubSeq(slide, i, e + 3) \o Str(IntStr(total))
            \o SubCounter(slide, e + 5, total)

\* updated_slide for the slide at position idx
UpdatedSlide(slide, idx, total) ==
    SubCounter(ReplaceLeft(ReplaceLeft(slide, "slide_number", IntStr(idx)),
                           "total_slides", IntStr(total)), 1, total)

\* the lesson whose body is running
CurrentLesson == AllLessons(course)[li]

\* AppendSlide putting the new slide in front of the others.
PrependSlide(slide_html, raised) ==
    IF raised
    THEN /\ pc' = "exit"
         /\ err' = [exc |-> "Exception", msg |-> <<>>]
         /\ UNCHANGED <<slides, slide_num, tml, exit_code>>
    ELSE /\ slides' = << slide_html >> \o slides
         /\ slide_num' = slide_num + 1
         /\ UNCHANGED <<pc, buildVars>>

\* a slide appended, or the exception that leaves render_course
AppendSlide(slide_html, raised) ==
    IF raised
    THEN /\ pc' = "exit"
         /\ err' = [exc |-> "Exception", msg |-> <<>>]
         /\ UNCHANGED <<slides, slide_num, tml, exit_code>>
    ELSE /\ slides' = Append(slides, slide_html)
         /\ slide_num' = slide_num + 1
         /\ UNCHANGED <<pc, buildVars>>

\* the lesson body entered: slides = [], slide_num = 0
BeginLesson ==
    /\ pc = "lessons"
    /\ slides' = <<>>
    /\ slide_num' = 0
    /\ pc' = "slides"
    /\ UNCHANGED <<course, outdir, li, made, index_html>>
    /\ UNCHANGED <<engineVars, buildVars, textVars>>

ContentSlide ==
    /\ pc = "slides"
    /\ SlideKindAt(CurrentLesson, Len(slides)) = "content"
    /\ AppendSlide(ContentSlideOf(CurrentLesson, Len(slides), slide_num + 1),
                   ContentSlideRaises(CurrentLesson, Len(slides)))
    /\ UNCHANGED <<course, outdir, li, made, index_html>>
    /\ UNCHANGED <<engineVars, textVars>>

\* the activity the activity loop is at once n slides are made
ActivityAt(l, n) == l.activities[n - Len(l.content) + 1]

ActivitySlide ==
    /\ pc = "slides"
    /\ SlideKindAt(CurrentLesson, Len(slides)) = "activity"
    /\ AppendSlide(ActivitySlideOf(ActivityAt(CurrentLesson, Len(slides)),
                                   Len(slides), slide_num + 1),
                   ActivitySlideRaises(ActivityAt(CurrentLesson, Len(slides))))
    /\ UNCHANGED <<course, outdir, li, made, index_html>>
    /\ UNCHANGED <<engineVars, textVars>>

\* the assessment the assessment loop is at once n slides are made
AssessmentAt(l, n) == l.assessments[n - Len(l.content) - Len(l.activities) + 1]

AssessmentSlide ==
    /\ pc = "slides"
    /\ SlideKindAt(CurrentLesson, Len(slides)) = "assessment"
    /\ \E shuffles \in Shuffles(AssessmentAt(CurrentLesson, Len(slides))) :
           AppendSlide(AssessmentSlideOf(course,
                                         AssessmentAt(CurrentLesson, Len(slides)),
                                         slide_num + 1, shuffles),
                       AssessmentSlideRaises(AssessmentAt(CurrentLesson,
                                                          Len(slides))))
    /\ UNCHANGED <<course, outdir, li, made, index_html>>
    /\ UNCHANGED <<engineVars, textVars>>

CompletionSlide ==
    /\ pc = "slides"
    /\ SlideKindAt(CurrentLesson, Len(slides)) = "completion"
    /\ IF EngineRaises(SlideHtml)
       THEN /\ pc' = "exit"
            /\ err' = [exc |-> "Exception", msg |-> <<>>]
            /\ UNCHANGED <<slides, slide_num, tml, exit_code>>
       ELSE /\ slides' = Append(slides, CompletionSlideOf(course, CurrentLesson,
                                                          slide_num + 1))
            /\ slide_num' = slide_num + 1
            /\ pc' = "number"
            /\ UNCHANGED buildVars
    /\ UNCHANGED <<course, outdir, li, made, index_html>>
    /\ UNCHANGED <<engineVars, textVars>>

\* the second pass over the slides of the lesson
NumberSlides ==
    /\ pc = "number"
    /\ slides' = [i \in DOMAIN slides |-> UpdatedSlide(slides[i], i, Len(slides))]
    /\ pc' = "numbered"
    /\ UNCHANGED <<course, outdir, li, made, index_html, slide_num>>
    /\ UNCHANGED <<engineVars, buildVars, textVars>>

LessonHeaderHtml == <<"partials/", "lesson_header", ".html">>

\* lesson_html of render_course: lesson.html rendered around the header and
\* the updated slides
LessonPage(c, l, updated_slides) ==
    EngineOut(LessonHtml,
        ("lesson_title" :> Str(l.title))
        @@ ("course_title" :> Str(c.title))
        @@ ("course_id" :> CtxStr(c.id))
        @@ ("total_lessons" :> Str(IntStr(total_lessons(c))))
        @@ ("lesson_id" :> Str(LessonKey(l)))
        @@ ("header_html" :>
               EngineOut(HeaderKey,
                   ("header_content" :>
                       EngineOut(LessonHeaderHtml,
                           ("lesson_title" :> Str(l.title))
                           @@ ("module_title" :> Str(l.module_title))))))
        @@ ("slides" :> Join(updated_slides, << Txt("\n") >>)))

\* the lesson page rendered around the slides and written; the file is kept
\* as the slides it was rendered from, and LessonPage gives its text
WriteLessonPage ==
    /\ pc = "numbered"
    /\ outdir' = Put(outdir, LessonFile(CurrentLesson),
                     [page |-> "lesson", lesson |-> li, slides |-> slides])
    /\ li' = li + 1
    /\ pc' = IF li = Len(AllLessons(course)) THEN "done" ELSE "lessons"
    /\ UNCHANGED <<course, made, index_html>>
    /\ UNCHANGED <<engineVars, buildVars, lessonVars, textVars>>

\* render_course with the lesson body taken slide by slide
LessonNext ==
    RenderIndex \/ BeginLesson \/ ContentSlide \/ ActivitySlide
    \/ AssessmentSlide \/ CompletionSlide \/ NumberSlides \/ WriteLessonPage

(* Inputs: the template directory and the lessons *)

MaxContent == 9
MaxActivities == 2
MaxAssessments == 2

\* A template directory whose slide prints the counter as
\* {{ slide_number }} / {{ total_slides }}
SlideDir ==
    (SlideHtml :> << Txt("<section data-type="), Var("slide_type", 1, 1),
                     Txt(" id="), Var("slide_id", 1, 1), Txt(">"),
                     Var("slide_content", 1, 1), Txt("<span class=counter>"),
                     Var("slide_number", 1, 1), Txt(" "), Txt("/"), Txt(" "),
                     Var("total_slides", 1, 1), Txt("</span></section>") >>)
    @@ (ContentSlideHtml :> << Txt("<div class=content>"),
                               Var("content_html", 1, 1), Txt("</div>") >>)
    @@ (<<"partials/", "activity_", "i", "d", "e", ".html">> :>
            << Txt("<div class=activity id="), Var("activity_id", 1, 1),
               Txt("><h2>"), Var("activity_type", 1, 1), Txt("</h2>"),
               Var("instructions", 1, 1), Var("est_html", 1, 1),
               Var("expected_html", 1, 1), Txt("</div>") >>)
    @@ (ActivityExampleHtml :>
            << Txt("<div class=example id="), Var("activity_id", 1, 1),
               Txt(">"), Var("example_explanation", 1, 1), Txt("<textarea>"),
               Var("initial_code", 1, 1), Txt("</textarea>"),
               Var("key_takeaways", 1, 1), Txt("</div>") >>)
    @@ (AssessmentSlideHtml :>
            << Txt("<form id="), Var("assess_id", 1, 1), Txt(" data-pass="),
               Var("pass_score", 1, 1), Txt(">"), Var("questions", 1, 1),
               Txt("</form>") >>)

\* A template directory without a slide template
NoSlideDir == CardDir

ContentFormats == <<"html", "markdown", "text">>

\* the content blocks of a lesson, n of them, each with a text of its own
ContentBlocks(n) ==
    [i \in 1..n |-> TContent(ContentFormats[(i % 3) + 1], <<>>,
                             <<"<", "b", ">">> \o IntStr(i))]

ActivityChoices ==
    << TActivity(<<>>, <<"i", "d", "e">>, <<"5">>, <<"d", "o", "<">>, <<>>),
       TActivity(<<"a">>, <<"B", "I", "o">>, <<>>, <<>>, <<Tick, "t", Tick>>),
       TActivity(<<"r">>, Reading, <<>>, <<>>,
                 <<"s", "\n">> \o Fence \o Javascript
                 \o <<"\n", "x", "<", "\n">> \o Fence
                 \o <<"\n">> \o Takeaway) >>

\* n activities, taken in turn from the choices, starting after `from`
Activities(n, from) ==
    [i \in 1..n |-> ActivityChoices[((from + i) % 3) + 1]]

\* n assessments without questions, with ids q1, q2, ...
Assessments(n) ==
    [i \in 1..n |-> TAssessment(<<"q">> \o IntStr(i), <<"q", "u", "i", "z">>,
                                IF i % 2 = 1 THEN 0 ELSE 70, <<>>)]

LessonCourses ==
    { TCourse(<<"c">>, <<"T">>, <<>>, <<>>, <<>>,
          << TModule(<<>>, M1, 0,
                 << TLesson(lid, <<"I", "n", "t", "r", "o">>, <<>>,
                            ContentBlocks(nc), Activities(na, from),
                            Assessments(nq), M1) >>) >>) :
        lid \in {<<>>, <<"a">>}, nc \in 0..MaxContent, na \in 0..MaxActivities,
        from \in 0..2, nq \in 0..MaxAssessments }

\* render_course(course, outdir, template_dir) on a fresh output directory
LessonInit ==
    /\ \E fs \in {SlideDir, NoSlideDir} : EngineOn(fs)
    /\ course \in LessonCourses
    /\ outdir = <<>>
    /\ index_html = <<>>
    /\ made = FALSE
    /\ li = 0
    /\ pc = "start"
    /\ LessonIdle
    /\ BuildIdle
    /\ TextIdle

SpecLesson == LessonInit /\ [][LessonNext]_vars

-----------------------------------------------------------------------------
(* C13 *)

\* the characters and chunks of a piece of page text
Unstr(toks) == [i \in DOMAIN toks |-> toks[i].name[1]]

\* the text of a slide between the first `open` and the next `close`
Between(slide, open, close) ==
    LET i == FindFrom(slide, 1, << open >>)
        j == FindFrom(slide, i + 1, << close >>)
    IN Unstr(SubSeq(slide, i + 1, j - 1))

SlideTypeOf(slide) == Between(slide, Txt("<section data-type="), Txt(" id="))
SlideIdOf(slide) == Between(slide, Txt(" id="), Txt(">"))
CounterOf(slide) ==
    Between(slide, Txt("<span class=counter>"), Txt("</span></section>"))

\* The slide at position k of lesson l is the one the lesson's k-th item
\* gives: content blocks first, then activities, then assessments, then the
\* completion slide.
SlideIsItem(l, k, slide) ==
    LET nc == Len(l.content)
        na == Len(l.activities)
        nq == Len(l.assessments)
    IN IF k <= nc
       THEN /\ SlideTypeOf(slide) = << "content" >>
            /\ SlideIdOf(slide) =
                   <<"content-">> \o LessonKey(l) \o <<"-">> \o IntStr(k - 1)
            /\ FindFrom(slide, 1, Str(escape_html(l.content[k].value))) > 0
       ELSE IF k <= nc + na
       THEN /\ SlideTypeOf(slide) = << "activity" >>
            /\ SlideIdOf(slide) =
                   <<"activity-">>
                   \o OrElse(l.activities[k - nc].id,
                             <<"a", "c", "t", "-">> \o IntStr(k - 1))
       ELSE IF k <= nc + na + nq
       THEN /\ SlideTypeOf(slide) = << "assessment" >>
            /\ SlideIdOf(slide) = <<"assessment-">> \o l.assessments[k - nc - na].id
       ELSE /\ SlideTypeOf(slide) = << "completion" >>
            /\ SlideIdOf(slide) = <<"completion-">> \o LessonKey(l)

\* C13: once the completion slide is made, the lesson has
\* |content| + |activities| + |assessments| + 1 slides: one per content block
\* in document order, then one per activity in document order, then one per
\* assessment in document order, then the completion slide, which is last; a
\* lesson without content, activities and assessments has exactly one slide.
C13_SlideSequence ==
    pc \in {"number", "numbered"} =>
        LET l == CurrentLesson
        IN /\ Len(slides) = Len(l.content) + Len(l.activities)
                            + Len(l.assessments) + 1
           /\ slide_num = Len(slides)
           /\ files = SlideDir =>
                  \A k \in DOMAIN slides : SlideIsItem(l, k, slides[k])

C13_Witness ==
    /\ pc = "numbered"
    /\ files = SlideDir
    /\ Len(CurrentLesson.content) >= 2
    /\ Len(CurrentLesson.activities) >= 2
    /\ Len(CurrentLesson.assessments) >= 1
    /\ Len(slides) >= 6

-----------------------------------------------------------------------------
(* C14 *)

\* C14: after the second numbering pass, under a slide template that prints
\* the counter as {{ slide_number }} / {{ total_slides }}, the slide at
\* position k of a lesson with N slides shows exactly "k / N", for every k in
\* 1..N and every N >= 1.
C14_CounterIsKOfN ==
    pc = "numbered" /\ files = SlideDir =>
        \A k \in DOMAIN slides :
            CounterOf(slides[k]) =
                IntStr(k) \o <<" ", "/", " ">> \o IntStr(Len(slides))

-----------------------------------------------------------------------------
(* build on documents that fail to parse *)

Intro == <<"I", "n", "t", "r", "o">>

\* Module elements: a good one, modules whose lessons lack a title (with an
\* id, without one, without any attribute, with an empty id), a module
\* without a title and a module whose order is not a number.
BuildModules ==
    { [attrib |-> << <<"title", <<"P">> >>, <<"order", <<"1">> >> >>,
       lessons |-> << IntroLesson >>],
      [attrib |-> << <<"id", <<"m">> >>, <<"title", <<"Q">> >> >>,
       lessons |-> << [attrib |-> << <<"id", <<"a">> >>,
                                     <<"duration", <<"5">> >> >>],
                      IntroLesson >>],
      [attrib |-> << <<"title", <<"P">> >> >>,
       lessons |-> << IntroLesson, [attrib |-> <<>>] >>],
      [attrib |-> << <<"id", <<"m">> >>, <<"order", <<"1">> >> >>,
       lessons |-> << [attrib |-> << <<"id", <<"b">> >> >>] >>],
      [attrib |-> << <<"title", <<"R">> >>, <<"order", <<"x">> >> >>,
       lessons |-> << [attrib |-> << <<"id", <<"b">> >> >>] >>],
      [attrib |-> << <<"title", <<"Q">> >> >>,
       lessons |-> << [attrib |-> << <<"id", <<>> >>,
                                     <<"duration", <<"5">> >> >>] >>] }

\* A file that is not well-formed XML: it has no elements to read.
MalformedDoc ==
    [wellformed |-> FALSE, attrib |-> <<>>, objectives |-> <<>>, modules |-> <<>>]

BuildDocs ==
    { MalformedDoc }
    \cup { [wellformed |-> TRUE, attrib |-> RootAttrib, objectives |-> <<>>,
            modules |-> ms] :
             ms \in UNION { [1..n -> BuildModules] : n \in 0..MaxDocModules } }

\* validate and what the validator finds: lxml importable or not, the schema
\* file found or not, and the verdict of lxml on schema and document
BuildEnvs ==
    { [validate |-> FALSE, lxml |-> TRUE, xsd |-> TRUE, verdict |-> "valid"],
      [validate |-> TRUE, lxml |-> FALSE, xsd |-> TRUE, verdict |-> "valid"],
      [validate |-> TRUE, lxml |-> TRUE, xsd |-> FALSE, verdict |-> "valid"],
      [validate |-> TRUE, lxml |-> TRUE, xsd |-> TRUE, verdict |-> "valid"],
      [validate |-> TRUE, lxml |-> TRUE, xsd |-> TRUE, verdict |-> "invalid"],
      [validate |-> TRUE, lxml |-> TRUE, xsd |-> TRUE,
       verdict |-> "schema_error"] }

\* An output directory left by an earlier build
StaleDir == (IndexFile :> [page |-> "stale", lesson |-> 0])

InitialOutdirs == { <<>>, StaleDir }

BuildInit ==
    /\ EngineOn(CardDir)
    /\ BuildStart({ [doc |-> d, validate |-> e.validate, lxml |-> e.lxml,
                     xsd |-> e.xsd, verdict |-> e.verdict] :
                       d \in BuildDocs, e \in BuildEnvs })
    /\ outdir \in InitialOutdirs

SpecBuild == BuildInit /\ [][BuildNext]_vars

-----------------------------------------------------------------------------
(* C15 *)

\* the first lesson without a title attribute, in document order:
\* <<module index, lesson index>>, or <<0, 0>> when every lesson has one
RECURSIVE FirstUntitledFrom(_, _, _)
FirstUntitledFrom(ms, i, j) ==
    IF i > Len(ms) THEN <<0, 0>>
    ELSE IF j > Len(ms[i].lessons) THEN FirstUntitledFrom(ms, i + 1, 1)
    ELSE IF ~HasAttr(ms[i].lessons[j].attrib, "title") THEN <<i, j>>
    ELSE FirstUntitledFrom(ms, i, j + 1)

FirstUntitled(doc) == FirstUntitledFrom(doc.modules, 1, 1)

\* the text s occurs in the message
Mentions(msg, s) == FindFrom(msg, 1, s) > 0

\* The message names the lesson at <<i, j>>: its id or "(no id)", the title
\* of its module, the element kind and the attributes present on it.
NamesLesson(msg, doc, at) ==
    LET m == doc.modules[at[1]]
        l == m.lessons[at[2]]
        lid == AttrGet(l.attrib, "id", <<>>)
    IN /\ HasAttr(m.attrib, "title")
       /\ Mentions(msg, << "Error in lesson " >>
                        \o (IF lid = <<>> THEN << "(no id)" >> ELSE lid)
                        \o << " of module '" >>
                        \o AttrGet(m.attrib, "title", <<>>) \o << "': " >>)
       /\ Mentions(msg, << "' on <", "lesson", "> element" >>)
       /\ Mentions(msg, << ".\nAvailable attributes: " >>
                        \o (IF l.attrib = <<>> THEN << "none" >>
                            ELSE Join([k \in DOMAIN l.attrib |->
                                          << l.attrib[k][1] >>], << ", " >>))
                        \o << "\nPlease add the '" >>)

\* C15 (as claimed): when a lesson of the document has no title attribute,
\* build ends on a parse error whose message names the first such lesson:
\* its id or "(no id)", the title of its module, the element kind and the
\* attributes present.
C15_UntitledLessonNamed ==
    pc # "parse" /\ tml.doc.wellformed /\ FirstUntitled(tml.doc) # <<0, 0>> =>
        /\ pc = "exit"
        /\ NamesLesson(err.msg, tml.doc, FirstUntitled(tml.doc))

\* Nothing fails before the lesson at <<i, j>> is read: validation is not
\* requested, is skipped or passes, and the modules up to the lesson's own
\* have a title and an order that int() accepts.
ReadUpTo(t, at) ==
    /\ ~t.validate \/ ~t.lxml \/ ~t.xsd \/ t.verdict = "valid"
    /\ \A i \in 1..at[1] :
          /\ HasAttr(t.doc.modules[i].attrib, "title")
          /\ LET o == AttrGet(t.doc.modules[i].attrib, "order", <<>>)
             IN o = <<>> \/ o \in { <<"1">>, <<"2">>, <<"1", "0">>, <<"-", "1">> }

\* C15 (amended): when a lesson has no title attribute and nothing fails
\* before it is read, parse raises TMLParseError for the first such lesson
\* in document order, with a message that holds its id or "(no id)", the
\* title of its module, the element kind and the attributes present.
C15_FirstUntitledLessonNamed ==
    /\ pc # "parse"
    /\ tml.doc.wellformed
    /\ FirstUntitled(tml.doc) # <<0, 0>>
    /\ ReadUpTo(tml, FirstUntitled(tml.doc))
    => /\ pc = "exit"
       /\ err.exc = "TMLParseError"
       /\ NamesLesson(err.msg, tml.doc, FirstUntitled(tml.doc))

C15_Witness ==
    /\ pc = "exit"
    /\ FirstUntitled(tml.doc) = <<2, 1>>
    /\ ReadUpTo(tml, <<2, 1>>)
    /\ AttrGet(tml.doc.modules[2].lessons[1].attrib, "id", <<>>) = <<"a">>
    /\ tml.validate

-----------------------------------------------------------------------------
(* C16 *)

\* parse fails in one of the three cases of the claim: the validator
\* reports invalid, the document is not well-formed, a module or a lesson
\* lacks its title
FailsAsListed(t) ==
    \/ t.validate /\ ~validate_tml_xsd(t).valid
    \/ ~t.doc.wellformed
    \/ \E i \in DOMAIN t.doc.modules :
          \/ ~HasAttr(t.doc.modules[i].attrib, "title")
          \/ \E j \in DOMAIN t.doc.modules[i].lessons :
                ~HasAttr(t.doc.modules[i].lessons[j].attrib, "title")

\* C16: in each of the three cases parse fails with TMLParseError, the
\* parser's own error type; in particular for a malformed document parsed
\* with validate=false or with the validator skipped.
C16_OwnErrorType ==
    pc = "exit" /\ FailsAsListed(tml) /\ err.exc # "ValueError" =>
        err.exc = "TMLParseError"

-----------------------------------------------------------------------------
(* C17 *)

\* lxml cannot be imported, or no schema file is found
ValidatorSkipped(t) == ~t.lxml \/ ~t.xsd

\* C17: with the validator library unavailable or the schema file missing,
\* build with validate=true ends as build with validate=false does on the
\* same document: the same Course, or the same error.
C17_SkippedAsNotRequested ==
    tml.validate /\ ValidatorSkipped(tml) =>
        LET r == parse_tml([tml EXCEPT !.validate = FALSE])
        IN /\ validate_tml_xsd(tml).valid
           /\ parse_tml(tml) = r
           /\ pc # "parse" =>
                 IF r.ok THEN course = r.course /\ err = NoError
                 ELSE err = [exc |-> r.exc, msg |-> r.msg] /\ pc = "exit"

C17_Witness ==
    /\ tml.validate
    /\ tml.lxml /\ ~tml.xsd
    /\ pc = "done"
    /\ Len(course.modules) >= 2

-----------------------------------------------------------------------------
(* C18 *)

\* C18: when parse_tml fails, build renders nothing: the output directory is
\* not created, no file in it is written or overwritten, and build exits
\* with a non-zero status.
C18_NoRenderingOnParseFailure ==
    ~parse_tml(tml).ok =>
        /\ pc \in {"parse", "exit"}
        /\ ~made
        /\ outdir \in InitialOutdirs
        /\ index_html = <<>>
        /\ pc = "exit" => exit_code # 0 /\ exit_code # -1

C18_Witness ==
    /\ pc = "exit"
    /\ ~parse_tml(tml).ok
    /\ err.exc = "TMLParseError"
    /\ outdir = StaleDir
    /\ exit_code = 1

-----------------------------------------------------------------------------
(* render_course on a course that carries markup in one of its fields *)

\* The opening tag of <script>alert(1)</script>
Payload == <<"<", "s", "c", "r", "i", "p", "t", ">">>

PayloadFields ==
    {"none", "title", "level", "duration", "objective", "module", "lesson",
     "html", "markdown", "text", "est", "instructions", "expected",
     "assessment"}

\* the value of field f of a course whose field `field` holds the payload
FieldValue(f, field, plain) == IF f = field THEN Payload ELSE plain

\* A course of one module and one lesson, with one content block, one
\* activity and one assessment.
PayloadCourse(field) ==
    LET mtitle == FieldValue("module", field, M1)
        fmt == IF field \in {"html", "text"} THEN field ELSE "markdown"
    IN TCourse(<<"c">>, FieldValue("title", field, <<"T">>),
           FieldValue("level", field, <<>>),
           FieldValue("duration", field, <<"1", "h">>),
           << FieldValue("objective", field, <<"o">>) >>,
           << TModule(<<>>, mtitle, 0,
                  << TLesson(<<>>, FieldValue("lesson", field, Intro), <<>>,
                         << TContent(fmt, <<>>,
                                     FieldValue(fmt, field, <<"x">>)) >>,
                         << TActivity(<<>>, <<"i", "d", "e">>,
                                FieldValue("est", field, <<"5">>),
                                FieldValue("instructions", field, <<"d", "o">>),
                                FieldValue("expected", field, <<"x">>)) >>,
                         << TAssessment(FieldValue("assessment", field, <<"q">>),
                                        <<"q", "u", "i", "z">>, 0, <<>>) >>,
                         mtitle) >>) >>)

\* render_course under the built-in defaults and under a template directory
\* with module cards, lesson items and slides
EscapeInit ==
    /\ EngineIdle \/ EngineOn(CardDir @@ SlideDir)
    /\ course \in { PayloadCourse(field) : field \in PayloadFields }
    /\ outdir = <<>>
    /\ index_html = <<>>
    /\ made = FALSE
    /\ li = 0
    /\ pc = "start"
    /\ LessonIdle
    /\ BuildIdle
    /\ TextIdle

SpecEscape == EscapeInit /\ [][LessonNext]_vars

-----------------------------------------------------------------------------
(* C19 *)

\* the page text holds the payload as markup, character for character
HoldsRaw(page) == FindFrom(page, 1, Str(Payload)) > 0

\* C19: whatever text field of the course holds <script>, the index page and
\* the slides of the lesson pages hold it in escaped form only, never as raw
\* markup.
C19_ScriptOnlyEscaped ==
    /\ ~HoldsRaw(index_html)
    /\ \A k \in DOMAIN slides : ~HoldsRaw(slides[k])

-----------------------------------------------------------------------------
(* safe_markdown on bounded inputs *)

MaxSegs == 3
MaxMdLen == 24

\* Pieces of markdown: text, a space, a newline, a fenced block with a
\* language whose body holds markup, a fenced block without language whose
\* body holds bold text, bold text, inline code, a list marker, a heading
\* marker.
MdSegments ==
    { <<"t">>, <<" ">>, <<"\n">>,
      Fence \o <<"j", "\n", "<", "b", ">">> \o Fence,
      Fence \o <<"\n", "*", "*", "t", "*", "*", "\n">> \o Fence,
      <<"*", "*", "t", "*", "*">>,
      <<Tick, "t", Tick>>,
      <<"-", " ">>,
      <<"#", " ">> }

\* the texts made of up to n pieces
RECURSIVE MdTexts(_)
MdTexts(n) ==
    IF n = 0 THEN { <<>> }
    ELSE MdTexts(n - 1) \cup { p \o s : p \in MdTexts(n - 1), s \in MdSegments }

MdInputs == { s \in MdTexts(MaxSegs) : Len(s) <= MaxMdLen }

\* safe_markdown(md); an IndexError of the placeholder lookup leaves no
\* result
RenderMarkdown ==
    /\ pc = "md"
    /\ LET r == safe_markdown(md)
       IN /\ md_html' = r.out
          /\ pc' = IF r.raised THEN "raised" ELSE "done"
    /\ UNCHANGED <<md, course, outdir, li, made, index_html>>
    /\ UNCHANGED <<engineVars, buildVars, lessonVars>>

MdInit ==
    /\ EngineIdle
    /\ course = TCourse(<<>>, <<>>, <<>>, <<>>, <<>>, <<>>)
    /\ outdir = <<>>
    /\ li = 0
    /\ made = FALSE
    /\ index_html = <<>>
    /\ BuildIdle
    /\ LessonIdle
    /\ md \in MdInputs
    /\ md_html = <<>>
    /\ pc = "md"

SpecMarkdown == MdInit /\ [][RenderMarkdown]_vars

-----------------------------------------------------------------------------
(* C20 *)

\* the fenced code blocks of a text: language and escaped body of each
FencedBlocks(text) ==
    ExtractCodeBlocks(StripChars(text, SpaceChars), 1, <<>>).blocks

\* <pre><code class="language-X">body</code></pre>
BlockHtml(b) ==
    << "<pre><code class=\"language-" >> \o escape_html(b.lang) \o << "\">" >>
    \o StripChars(b.code, SpaceChars) \o << "</code></pre>" >>

\* C20: every fenced code block of the input is in the output of
\* safe_markdown as exactly one <pre><code class="language-X"> block that
\* holds the escaped body as it was written, wherever the fence sits in the
\* text.
C20_FenceIsOneCodeBlock ==
    pc = "done" =>
        LET bs == FencedBlocks(md)
        IN /\ Cardinality({ i \in DOMAIN md_html :
                              md_html[i] = "<pre><code class=\"language-" })
              = Len(bs)
           /\ \A i \in DOMAIN bs : FindFrom(md_html, 1, BlockHtml(bs[i])) > 0

-----------------------------------------------------------------------------
(* safe_filename on bounded titles *)

\* Length of the generated titles.
MaxTitleLen == 3

\* A lower-case letter, a letter str.lower() changes, a digit, the two
\* punctuation characters of the class, white space, and a character outside
\* the class (punctuation, any non-ASCII letter).
TitleChars == {"a", "B", "1", "_", "-", " ", "!"}

RECURSIVE TitlesUpTo(_)
TitlesUpTo(n) ==
    IF n = 0 THEN { <<>> }
    ELSE TitlesUpTo(n - 1)
         \cup { Append(t, c) : t \in { u \in TitlesUpTo(n - 1) : Len(u) = n - 1 },
                               c \in TitleChars }

LessonWord == <<"l", "e", "s", "s", "o", "n">>

\* the generated titles, and the titles that spell the default slug
SlugInputs ==
    TitlesUpTo(MaxTitleLen)
    \cup { LessonWord, <<" ", "-">> \o LessonWord \o <<"!">>,
           <<"l", "e", "s", "s", "-", "o", "n">> }

\* safe_filename(name)
SafeFilename ==
    /\ pc = "name"
    /\ md_html' = safe_filename(md)
    /\ pc' = "slug"
    /\ UNCHANGED <<md, course, outdir, li, made, index_html>>
    /\ UNCHANGED <<engineVars, buildVars, lessonVars>>

SlugInit ==
    /\ EngineIdle
    /\ course = TCourse(<<>>, <<>>, <<>>, <<>>, <<>>, <<>>)
    /\ outdir = <<>>
    /\ li = 0
    /\ made = FALSE
    /\ index_html = <<>>
    /\ BuildIdle
    /\ LessonIdle
    /\ md \in SlugInputs
    /\ md_html = <<>>
    /\ pc = "name"

SpecSlug == SlugInit /\ [][SafeFilename]_vars

-----------------------------------------------------------------------------
(* C21 *)

\* [a-z0-9_]: the characters of a slug other than the dash
IsKept(c) == c \in LowerChars \cup DigitChars \cup {"_"}

\* the characters of s that satisfy IsKept, in order
RECURSIVE KeptOf(_)
KeptOf(s) ==
    IF s = <<>> THEN <<>>
    ELSE (IF IsKept(Head(s)) THEN << Head(s) >> ELSE <<>>) \o KeptOf(Tail(s))

\* lower-case letters, digits, _ and - only; no "--"; no "-" at either end;
\* not empty
WellFormedSlug(s) ==
    /\ s # <<>>
    /\ \A i \in DOMAIN s : IsKept(s[i]) \/ s[i] = "-"
    /\ \A i \in 1..(Len(s) - 1) : ~(s[i] = "-" /\ s[i + 1] = "-")
    /\ s[1] # "-"
    /\ s[Len(s)] # "-"

\* nothing of the title remains after trimming: it holds no letter, digit
\* or underscore
NothingRemains(name) == KeptOf(LowerStr(name)) = <<>>

\* C21 as stated: the slug is well formed, and is "lesson" exactly when
\* nothing of the title remains after trimming.
C21_LessonIffNothingRemains ==
    pc = "slug" =>
        /\ WellFormedSlug(md_html)
        /\ (md_html = LessonWord <=> NothingRemains(md))

\* C21: the slug returned by safe_filename is non-empty, holds only
\* lower-case letters, digits, _ and -, has no two consecutive dashes and no
\* dash at either end; it is "lesson" when nothing of the title remains
\* after trimming, and otherwise holds the letters, digits and underscores
\* of the lowered title in their order (so a title that itself spells
\* lesson also gives "lesson").
C21_SlugWellFormed ==
    pc = "slug" =>
        /\ WellFormedSlug(md_html)
        /\ NothingRemains(md) => md_html = LessonWord
        /\ ~NothingRemains(md) => KeptOf(md_html) = KeptOf(LowerStr(md))

\* a title of punctuation and white space only has been given its slug
C21_Witness ==
    /\ pc = "slug"
    /\ md = <<" ", "-", "!">>
    /\ md_html = LessonWord

-----------------------------------------------------------------------------
(* safe_markdown on texts made of whole lines *)

\* Lines of a text.
MaxLines == 4

\* A list item, an indented list item, a paragraph, a blank line, a
\* heading, a dash that starts no item, and a fenced block (two lines).
MdLines ==
    { <<"-", " ", "t">>, <<" ", "-", " ", "x">>, <<"t">>, <<>>,
      <<"#", " ", "t">>, <<"-", "t">>, Fence \o <<"\n", "x">> \o Fence }

RECURSIVE LineSeqs(_)
LineSeqs(n) ==
    IF n = 0 THEN { <<>> }
    ELSE LineSeqs(n - 1)
         \cup { Append(p, l) : p \in { q \in LineSeqs(n - 1) : Len(q) = n - 1 },
                               l \in MdLines }

ListInputs ==
    { s \in { Join(ls, << "\n" >>) : ls \in LineSeqs(MaxLines) } :
        Len(s) <= MaxMdLen }

ListInit ==
    /\ EngineIdle
    /\ course = TCourse(<<>>, <<>>, <<>>, <<>>, <<>>, <<>>)
    /\ outdir = <<>>
    /\ li = 0
    /\ made = FALSE
    /\ index_html = <<>>
    /\ BuildIdle
    /\ LessonIdle
    /\ md \in ListInputs
    /\ md_html = <<>>
    /\ pc = "md"

SpecList == ListInit /\ [][RenderMarkdown]_vars

-----------------------------------------------------------------------------
(* C25 *)

\* the positions of <ul> and </ul> in a text, in order
UlMarks(out) == SelectSeq(out, LAMBDA e : e \in {"<ul>", "</ul>"})

\* <ul>, </ul>, <ul>, </ul>, ...: balanced and never nested
UlAlternate(out) ==
    LET ms == UlMarks(out)
    IN /\ Len(ms) % 2 = 0
       /\ \A i \in DOMAIN ms : ms[i] = (IF i % 2 = 1 THEN "<ul>" ELSE "</ul>")

\* the element at position i of out, "" outside of it
ElemAt(out, i) == IF i \in DOMAIN out THEN out[i] ELSE ""

\* every <li> line directly follows a <ul> line or another <li> line, every
\* </li> is directly followed by a <li> line or a </ul> line, a <ul> line
\* is directly followed by a <li> line and a </ul> line directly follows one
ListRunsWrapped(out) ==
    \A i \in DOMAIN out :
        /\ out[i] = "<li>" =>
              /\ ElemAt(out, i - 1) = "\n"
              /\ ElemAt(out, i - 2) \in {"<ul>", "</li>"}
        /\ out[i] = "</li>" =>
              /\ ElemAt(out, i + 1) = "\n"
              /\ ElemAt(out, i + 2) \in {"</ul>", "<li>"}
        /\ out[i] = "<ul>" =>
              /\ ElemAt(out, i + 1) = "\n"
              /\ ElemAt(out, i + 2) = "<li>"
              /\ ElemAt(out, i - 1) \in {"", "\n"}
        /\ out[i] = "</ul>" =>
              /\ ElemAt(out, i - 1) = "\n"
              /\ ElemAt(out, i - 2) = "</li>"
              /\ ElemAt(out, i + 1) \in {"", "\n"}

\* the input line is a list item: stripped, it starts with "- "
IsItemLine(line) == StartsWith(StripChars(line, SpaceChars), <<"-", " ">>)

\* the number of maximal runs of consecutive list items among the lines
RECURSIVE ItemRuns(_, _)
ItemRuns(lines, inRun) ==
    IF lines = <<>> THEN 0
    ELSE IF IsItemLine(Head(lines))
    THEN (IF inRun THEN 0 ELSE 1) + ItemRuns(Tail(lines), TRUE)
    ELSE ItemRuns(Tail(lines), FALSE)

\* C25: in the output of safe_markdown <ul> and </ul> are balanced and never
\* nested, every <li> line lies inside a <ul>..</ul>, each maximal run of
\* consecutive <li> lines is wrapped by exactly one pair, and a line that is
\* no list item (a blank one included) between two items closes the list
\* before it and opens a new one after it: there are as many lists as runs
\* of item lines in the text.
C25_ListsWrappedPerRun ==
    pc = "done" =>
        /\ UlAlternate(md_html)
        /\ ListRunsWrapped(md_html)
        /\ Len(UlMarks(md_html))
             = 2 * ItemRuns(SplitLines(StripChars(md, SpaceChars)), FALSE)

\* two list items with a blank line between them have been rendered as two
\* lists
C25_Witness ==
    /\ pc = "done"
    /\ md = <<"-", " ", "t", "\n", "\n", "-", " ", "t">>
    /\ Len(UlMarks(md_html)) = 4

-----------------------------------------------------------------------------
(* safe_markdown on texts that hold a placeholder of their own *)

\* Pieces and characters of a text.
MaxPieces == 3
MaxPlaceholderLen == 28

\* The placeholders of the first two code blocks written out in the text,
\* a fenced block, text, a space and a newline.
PlaceholderPieces ==
    { CodeBlockPlaceholder(0), CodeBlockPlaceholder(1),
      Fence \o <<"\n", "x">> \o Fence, <<"t">>, <<" ">>, <<"\n">> }

RECURSIVE PieceTexts(_)
PieceTexts(n) ==
    IF n = 0 THEN { <<>> }
    ELSE PieceTexts(n - 1)
         \cup { p \o s : p \in PieceTexts(n - 1), s \in PlaceholderPieces }

PlaceholderInputs ==
    { s \in PieceTexts(MaxPieces) : Len(s) <= MaxPlaceholderLen }

PlaceholderInit ==
    /\ EngineIdle
    /\ course = TCourse(<<>>, <<>>, <<>>, <<>>, <<>>, <<>>)
    /\ outdir = <<>>
    /\ li = 0
    /\ made = FALSE
    /\ index_html = <<>>
    /\ BuildIdle
    /\ LessonIdle
    /\ md \in PlaceholderInputs
    /\ md_html = <<>>
    /\ pc = "md"

SpecPlaceholder == PlaceholderInit /\ [][RenderMarkdown]_vars

-----------------------------------------------------------------------------
(* C27 *)

\* C27: safe_markdown returns a string for every text and never raises,
\* also when the text itself holds ___CODE_BLOCK_n___, with or without
\* fenced code blocks beside it.
C27_MarkdownTotal == pc # "raised"

-----------------------------------------------------------------------------
(* C26 *)

\* C26: after render_course has completed, index.html of the output
\* directory is the index page, whatever the titles of the lessons: no
\* lesson page has been written to its path.
C26_IndexIsIndexPage ==
    pc = "done" =>
        /\ IndexFile \in DOMAIN outdir
        /\ outdir[IndexFile].page = "index"

-----------------------------------------------------------------------------
(* build on documents whose lesson holds an assessment with questions *)

\* Questions of the assessment.
MaxQuestions == 3

\* A template directory with the slide templates and a question template
QuizDir ==
    CardDir @@ SlideDir
    @@ (QuestionHtml :>
            << Txt("<div class=q"), Txt(" data-type="), Var("q_type", 1, 1),
               Txt(" data-points="), Var("q_points", 1, 1), Txt(">"),
               Txt("<span class=question-number-badge>"), Var("q_index", 1, 1),
               Txt("</span><span class=question-type-label>"),
               Var("q_type_label", 1, 1), Txt("</span><div class=stem>"),
               Var("stem", 1, 1), Txt("</div><div class=choices>"),
               Var("choices", 1, 1), Txt("</div></div>") >>)

Essay == <<"e", "s", "s", "a", "y">>

Leaf(tag, text) == Element(tag, <<>>, text, <<>>)

Pair(left, right) ==
    Element("pair", <<>>, <<>>, << Leaf("left", left), Leaf("right", right) >>)

Question(attrib, children) == Element("question", attrib, <<>>, children)

\* Questions of types the program does not know: with points and a stem,
\* without any attribute but the type, with points that are no number, and
\* with points nan.
UnknownQuestions ==
    { Question(<< <<"type", Essay>>, <<"points", <<"2">> >> >>,
               << Leaf("stem", <<"a", "<", "b">>) >>),
      Question(<< <<"type", <<"x">> >> >>, <<>>),
      Question(<< <<"type", Essay>>, <<"points", <<"x">> >> >>, <<>>),
      Question(<< <<"type", Essay>>, <<"points", <<"n", "a", "n">> >> >>, <<>>) }

\* Questions of types it knows: one without a type (mcq), true/false,
\* short with a solution and matching with two pairs.
KnownQuestions ==
    { Question(<< <<"points", <<"2", ".", "5", "0">> >> >>,
               << Leaf("stem", <<"s">>),
                  Element("choice", << <<"correct", <<"t", "r", "u", "e">> >> >>,
                          <<"a">>, <<>>),
                  Leaf("choice", <<"b">>) >>),
      Question(<< <<"type", Truefalse>> >>,
               << Leaf("statement", <<"s">>),
                  Element("answer", << <<"value", <<"t", "r", "u", "e">> >> >>,
                          <<>>, <<>>) >>),
      Question(<< <<"type", Short>> >>,
               << Leaf("prompt", <<"s">>), Leaf("solution", <<"<">>) >>),
      Question(<< <<"type", Matching>> >>,
               << Pair(<<"a">>, <<"r">>), Pair(<<"b">>, <<"<">>) >>) }

\* One question of each of the eight types and one of an unknown type
\* between them; the matching question has pairs that share a right-hand
\* value.
EveryTypeQuestions ==
    << Question(<< <<"type", Mcq>> >>, << Leaf("stem", <<"s">>), Leaf("choice", <<"a">>) >>),
       Question(<< <<"type", Msq>> >>, << Leaf("choice", <<"a">>) >>),
       Question(<< <<"type", Truefalse>> >>, << Leaf("statement", <<"s">>) >>),
       Question(<< <<"type", Essay>> >>, <<>>),
       Question(<< <<"type", Short>> >>, << Leaf("prompt", <<"s">>) >>),
       Question(<< <<"type", Long>> >>, << Leaf("prompt", <<"s">>) >>),
       Question(<< <<"type", Code>> >>,
                << Leaf("prompt", <<"s">>), Leaf("lang", <<"j", "s">>),
                   Leaf("starter", <<"x">>) >>),
       Question(<< <<"type", Matching>> >>,
                << Pair(<<"a">>, <<"r">>), Pair(<<"b">>, <<"s">>),
                   Pair(<<"d">>, <<"r">>) >>),
       Question(<< <<"type", Ordering>> >>,
                << Leaf("item", <<"a">>), Leaf("item", <<" ">>),
                   Leaf("item", <<"b">>) >>) >>

QuestionSeqs ==
    { EveryTypeQuestions }
    \cup UNION { [1..n -> UnknownQuestions \cup KnownQuestions] :
                   n \in 0..MaxQuestions }

\* <course id="c" title="T"><module title="M1"><lesson id="a" title="Intro">
\* <assessment id="q1" passScore="70"> questions </assessment> ...
QuizDoc(qs) ==
    [wellformed |-> TRUE, attrib |-> RootAttrib, objectives |-> <<>>,
     modules |->
        << [attrib |-> << <<"title", M1>> >>,
            lessons |->
               << [attrib |-> << <<"id", <<"a">> >>,
                                 <<"title", <<"I", "n", "t", "r", "o">> >> >>,
                   children |->
                      << Element("assessment",
                                 << <<"id", <<"q", "1">> >>,
                                    <<"passScore", <<"7", "0">> >> >>,
                                 <<>>, qs) >>] >>] >>]

\* no validation, validation skipped, and a validator that rejects
QuizEnvs ==
    { [validate |-> FALSE, lxml |-> TRUE, xsd |-> TRUE, verdict |-> "valid"],
      [validate |-> TRUE, lxml |-> FALSE, xsd |-> TRUE, verdict |-> "valid"],
      [validate |-> TRUE, lxml |-> TRUE, xsd |-> TRUE, verdict |-> "invalid"] }

QuizInit ==
    /\ EngineIdle \/ EngineOn(QuizDir)
    /\ BuildStart({ [doc |-> QuizDoc(qs), validate |-> e.validate,
                     lxml |-> e.lxml, xsd |-> e.xsd, verdict |-> e.verdict] :
                       qs \in QuestionSeqs, e \in QuizEnvs })
    /\ outdir = <<>>

QuizNext ==
    ParseTml \/ RenderIndex \/ BeginLesson \/ AssessmentSlide
    \/ CompletionSlide \/ NumberSlides \/ WriteLessonPage

SpecQuiz == QuizInit /\ [][QuizNext]_vars

-----------------------------------------------------------------------------
(* C22 *)

\* the <question> elements of the document's assessment, and the type
\* parse_tml reads from each
QuizQuestions == FindAll(tml.doc.modules[1].lessons[1].children[1], "question")

ElemType(q) == AttrGet(q.attrib, "type", Mcq)

HasUnknownType == \E i \in DOMAIN QuizQuestions : ElemType(QuizQuestions[i]) \notin KnownTypes

\* the positions where a question block starts in a slide, in order
BlockStarts(slide) ==
    LET S == { i \in DOMAIN slide : slide[i] = Txt("<div class=q") }
    IN [k \in 1..Cardinality(S) |->
           CHOOSE i \in S : Cardinality({ j \in S : j < i }) = k - 1]

\* the chunks that follow the value of data-type in a block
TypeEnds ==
    { Txt(" data-points="), Txt(" data-question-id="), Txt(" data-answer="),
      Txt("><div>Unsupported question type: ") }

\* the value of data-type of the block that starts at position i
TypeAfter(slide, i) ==
    LET s == FindFrom(slide, i, << Txt(" data-type=") >>)
        e == CHOOSE j \in (s + 1)..Len(slide) :
                 /\ slide[j] \in TypeEnds
                 /\ \A k \in (s + 1)..(j - 1) : slide[k] \notin TypeEnds
    IN Unstr(SubSeq(slide, s + 1, e - 1))

\* data-type of the blocks of a slide, in order
BlockTypes(slide) ==
    [k \in DOMAIN BlockStarts(slide) |-> TypeAfter(slide, BlockStarts(slide)[k])]

\* the block of question k of the slide says that its type is unsupported
SaysUnsupported(slide, k, qtype) ==
    At(slide, BlockStarts(slide)[k] + 1,
       << Txt(" data-type=") >> \o Str(qtype)
       \o << Txt("><div>Unsupported question type: ") >> \o Str(qtype)
       \o << Txt("</div></div>") >>)

\* the assessment slide holds one block per question of the document, in
\* document order
OneBlockPerQuestion ==
    BlockTypes(slides[1]) = [i \in DOMAIN QuizQuestions |-> ElemType(QuizQuestions[i])]

OnlyTypeUnknown ==
    /\ HasUnknownType
    /\ ~(tml.validate /\ ~validate_tml_xsd(tml).valid)
    /\ \A i \in DOMAIN QuizQuestions :
           ParseFloat(AttrGet(QuizQuestions[i].attrib, "points", << "1" >>)).kind
               = "num"

TokenPositions(slide, tok, lo, hi) ==
    LET S == { i \in lo..hi : i \in DOMAIN slide /\ slide[i] = tok }
    IN [k \in 1..Cardinality(S) |->
           CHOOSE i \in S : Cardinality({ j \in S : j < i }) = k - 1]

\* the last position of the k-th question block of a slide
BlockEnd(slide, k) ==
    IF k < Len(BlockStarts(slide)) THEN BlockStarts(slide)[k + 1] - 1
    ELSE Len(slide)

\* where the dropdowns of the k-th question block start, in order
Dropdowns(slide, k) ==
    TokenPositions(slide, Txt("</div><select name="),
                   BlockStarts(slide)[k], BlockEnd(slide, k))

\* the first position from i on that holds the chunk tok
NextToken(slide, i, tok) ==
    CHOOSE j \in i..Len(slide) :
        /\ slide[j] = tok
        /\ \A k \in i..(j - 1) : slide[k] # tok

\* data-correct of the dropdown that starts at d
CorrectOf(slide, d) ==
    LET s == NextToken(slide, d, Txt(" data-correct="))
    IN Unstr(SubSeq(slide, s + 1, NextToken(slide, s + 1, Txt(">")) - 1))

\* the values of the options of the dropdown that starts at d, in order,
\* the empty "-- Select --" option left out
OptionsOf(slide, d) ==
    LET ps == TokenPositions(slide, Txt("<option value="), d,
                             NextToken(slide, d, Txt("</select>")))
    IN [k \in DOMAIN ps |->
           Unstr(SubSeq(slide, ps[k] + 1,
                        NextToken(slide, ps[k] + 1, Txt(">")) - 1))]

CountIn(seq, v) == Cardinality({ i \in DOMAIN seq : seq[i] = v })

\* a and b hold the same values the same number of times
SameMultiset(a, b) ==
    /\ Len(a) = Len(b)
    /\ \A i \in DOMAIN a : CountIn(a, a[i]) = CountIn(b, a[i])

\* the right-hand values of the pairs of a question element, as the page
\* shows them
RightsOf(q) == [i \in DOMAIN Pairs(q) |-> escape_html(Pairs(q)[i].right)]

\* C24: in a rendered matching question every pair has one dropdown, all
\* dropdowns list the same options in the same order, that list holds the
\* right-hand values of all pairs of the question (the same multiset,
\* duplicates kept), and data-correct of each dropdown is the right-hand
\* value of its own pair.
C24_MatchingDropdowns ==
    \A k \in DOMAIN QuizQuestions :
        (Len(slides) >= 1 /\ files = QuizDir
         /\ ElemType(QuizQuestions[k]) = Matching) =>
            LET ds == Dropdowns(slides[1], k)
                rights == RightsOf(QuizQuestions[k])
            IN /\ Len(ds) = Len(rights)
               /\ \A i \in DOMAIN ds :
                      /\ OptionsOf(slides[1], ds[i]) = OptionsOf(slides[1], ds[1])
                      /\ SameMultiset(OptionsOf(slides[1], ds[i]), rights)
                      /\ CorrectOf(slides[1], ds[i]) = rights[i]

\* the matching question with right-hand values r, s, r was rendered with
\* its options in another order than the pairs have, r listed twice
C24_Witness ==
    /\ pc = "numbered"
    /\ files = QuizDir
    /\ QuizQuestions = EveryTypeQuestions
    /\ Len(Dropdowns(slides[1], 8)) = 3
    /\ OptionsOf(slides[1], Dropdowns(slides[1], 8)[1])
           # RightsOf(QuizQuestions[8])
    /\ CountIn(OptionsOf(slides[1], Dropdowns(slides[1], 8)[3]), <<"r">>) = 2
    /\ CorrectOf(slides[1], Dropdowns(slides[1], 8)[2]) = <<"s">>


-----------------------------------------------------------------------------
(* The build run again into the directory it has filled *)

\* Questions of an assessment of the rebuilt course.
MaxRebuildQuestions == 2

\* QuizDir with a lesson template that prints the slides
RebuildDir ==
    QuizDir
    @@ (LessonHtml :> << Txt("<html><h1>"), Var("lesson_title", 1, 1),
                         Txt("</h1>"), Var("slides", 1, 1), Txt("</html>") >>)

RebuildSeqs ==
    UNION { [1..n -> KnownQuestions] : n \in 0..MaxRebuildQuestions }

RebuildInit ==
    /\ EngineIdle \/ EngineOn(RebuildDir)
    /\ BuildStart({ [doc |-> QuizDoc(qs), validate |-> FALSE, lxml |-> TRUE,
                     xsd |-> TRUE, verdict |-> "valid"] : qs \in RebuildSeqs })
    /\ outdir = <<>>

\* build called again, in a new process, with the same document, templates
\* and output directory, once the build before it has returned: the
\* directory exists and holds what that build wrote
BuildAgain ==
    /\ pc = "done"
    /\ tml # <<>>
    /\ pc' = "parse"
    /\ course' = TCourse(<<>>, <<>>, <<>>, <<>>, <<>>, <<>>)
    /\ li' = 0
    /\ index_html' = <<>>
    /\ slides' = <<>>
    /\ slide_num' = 0
    /\ UNCHANGED <<outdir, made>>
    /\ UNCHANGED <<engineVars, buildVars, textVars>>

RebuildNext ==
    ParseTml \/ RenderIndex \/ BeginLesson \/ AssessmentSlide
    \/ CompletionSlide \/ NumberSlides \/ WriteLessonPage \/ BuildAgain

SpecRebuild == RebuildInit /\ [][RebuildNext]_vars

\* C23: building the same document with the same templates into the same
\* directory again leaves every file as the build before left it: the page
\* a later build is about to write for a lesson is the page the directory
\* holds for it.
C23_RebuildIdempotent ==
    (pc = "numbered" /\ LessonFile(CurrentLesson) \in DOMAIN outdir) =>
        LessonPage(course, CurrentLesson, outdir[LessonFile(CurrentLesson)].slides)
            = LessonPage(course, CurrentLesson, slides)

=============================================================================
